---- MODULE Spec2Model ----
(***************************************************************************)
(* Event-ticketing backend: the Event and Reservation stores, the          *)
(* inventory allocation done by the request handlers, the payment webhook  *)
(* and the admin edits of stages and free-ticket pools.                    *)
(*                                                                         *)
(* Time is an integer clock `now`; every `new Date()` of a handler reads   *)
(* it.  A document store `save()` is modelled as mongoose runs it: the     *)
(* schema validators first (on every path of the document), then the       *)
(* schema's pre('save') hook, then the write of the paths that changed     *)
(* since the document was loaded.  The Event model is the one with         *)
(* preSaleStages and the freeTickets configuration, whose fields the       *)
(* route handlers read.                                                    *)
(*                                                                         *)
(* A handler is a sequence of steps, one per store operation it awaits:    *)
(* a step is the operation on the store followed by the handler's code up  *)
(* to its next await.  `requests` holds, for every handler in flight, the  *)
(* documents it loaded and changed in memory and the step it awaits; the   *)
(* steps of different handlers interleave.                                 *)
(***************************************************************************)
EXTENDS Integers, Sequences, FiniteSets, TLC

VARIABLES now, events, reservations, last, requests

vars == <<now, events, reservations, last, requests>>

\* The request handlers (and runs of the scheduled job) that can be in
\* flight at once, and the state of a handler that is not running.
Requesters == {"r1", "r2"}
Idle == [pc |-> "idle"]
NoRequests == [p \in Requesters |-> Idle]

\* ---------------------------------------------------------------- bounds
\* The clock stops at MaxTime; the reservation store holds at most
\* MaxReservations documents.
\* No consumption counter is driven beyond MaxCount.
MaxTime == 2
MaxReservations == 2
MaxCount == 4

\* JavaScript `undefined` / `null` / NaN for a number-valued field or input.
undefined == 0 - 1000

\* JavaScript comparisons and arithmetic of numbers: a comparison with
\* undefined (NaN) is false, arithmetic on it gives NaN.
JsLess(a, b) == a # undefined /\ b # undefined /\ a < b
JsGreater(a, b) == a # undefined /\ b # undefined /\ a > b
JsPlus(a, b) == IF a = undefined \/ b = undefined THEN undefined ELSE a + b
JsMinus(a, b) == IF a = undefined \/ b = undefined THEN undefined ELSE a - b
\* A reservation without orderId  (orderId: orderId || null).
NoOrder == "null"

\* ------------------------------------------------------- input alphabets
EventIds == {"e1"}
\* An id no event has (findById returns null), and no id at all.
MissingEvent == "e0"
NoEvent == "undefined"
\* tickets.length of a request: 1..4 are accepted, 0 and 5 are refused.
TicketCounts == 1 .. 2
\* preSaleStageIndex values of a request body.
StageIndexInputs == {undefined, 0 - 1, 0, 1, 2}
OrderIds == {"o1"}
\* ticketLimit / quantity values an admin sends.
Limits == {1, 2}
Quantities == {0, 1, 2}
\* endDate and price values an admin sends for a stage.
EndDates == {1, 3}
StagePrices == {100, 150}
\* An event holds at most MaxStages stages.
MaxStages == 2
\* The version key of a document is followed up to MaxVersion.
MaxVersion == 1
\* An optional boolean of a request body: absent, true or false.
OptionalBool == {"absent", "true", "false"}

\* ------------------------------------------------------------ Event model
\* A stage is held as mongoose hydrates it, the schema defaults applied
\* (ticketsSold 0, isActive true); `missing` names the paths that the
\* stored element does not have.  The store normally holds every path of a
\* stage; an element that a positional write created has only the paths
\* that were written.
StagePaths == {"name", "price", "ticketLimit", "ticketsSold", "endDate", "isActive"}

\* A null element of the stage array: what the store pads the array with
\* when a positional write goes beyond its end.
NullStage ==
  [price |-> undefined, ticketLimit |-> undefined, ticketsSold |-> undefined,
   endDate |-> undefined, isActive |-> FALSE, missing |-> {"document"}]

\* Whether the stored element of a stage has the path f.
StageHas(stage, f) == stage # NullStage /\ f \notin stage.missing

\* Whether a stage array holds a null element: code that reads a field of
\* every stage throws a TypeError on it.
HasNullStage(ev) ==
  \E i \in 1 .. Len(ev.preSaleStages) : ev.preSaleStages[i] = NullStage

RECURSIVE SumAvailable(_, _)
SumAvailable(stages, i) ==
  IF i > Len(stages) THEN 0
  ELSE JsPlus(IF stages[i].isActive
                THEN JsMinus(stages[i].ticketLimit, stages[i].ticketsSold)
                ELSE 0,
              SumAvailable(stages, i + 1))

\* eventSchema.virtual('totalTicketsAvailable')
totalTicketsAvailable(ev) == SumAvailable(ev.preSaleStages, 1)

\* preSaleStageSchema validators (name, price, ticketLimit and endDate
\* required, price min 0, ticketLimit min 1, ticketsSold min 0,
\* endDate > new Date()); a null element is not validated.
StageValid(st, t) ==
  \/ st = NullStage
  \/ /\ st.missing \cap {"name", "price", "ticketLimit", "endDate"} = {}
     /\ st.price >= 0
     /\ st.ticketLimit >= 1
     /\ st.ticketsSold >= 0
     /\ st.endDate > t

\* freeTicketsConfigSchema validators (quantity min 0, ticketsClaimed min 0).
FreeTicketsValid(ft) ==
  /\ ft.quantity >= 0
  /\ ft.ticketsClaimed >= 0

EventStatuses == {"active", "cancelled", "completed", "sold-out"}

\* Validation of an Event document on save(): date >= new Date(), the
\* status enum, and the validators of every stage and of the free pool.
EventValid(ev, t) ==
  /\ ev.date >= t
  /\ ev.status \in EventStatuses
  /\ \A i \in 1 .. Len(ev.preSaleStages) : StageValid(ev.preSaleStages[i], t)
  /\ FreeTicketsValid(ev.freeTickets)

\* eventSchema.pre('save')
EventPreSave(ev, t) ==
  LET s1 == IF ev.date < t /\ ev.status = "active" THEN "completed" ELSE ev.status
      s2 == IF s1 = "active" /\ totalTicketsAvailable(ev) = 0 THEN "sold-out" ELSE s1
  IN [ev EXCEPT
        !.status = s2,
        !.preSaleStages =
           [i \in 1 .. Len(ev.preSaleStages) |->
              IF JsLess(ev.preSaleStages[i].endDate, t)
                THEN [ev.preSaleStages[i] EXCEPT !.isActive = FALSE,
                                                 !.missing = @ \ {"isActive"}]
                ELSE ev.preSaleStages[i]]]

\* save() of a new Event document: [ok, doc]; doc is what the store holds
\* afterwards.
EventSave(stored, ev, t) ==
  IF EventValid(ev, t)
    THEN [ok |-> TRUE, doc |-> EventPreSave(ev, t)]
    ELSE [ok |-> FALSE, doc |-> stored]

\* What save() writes of a loaded subdocument: the paths whose value the
\* handler (or the save hook) changed since the load; the other paths keep
\* what the store holds.
MergePaths(stored, loaded, doc) ==
  [f \in DOMAIN stored |-> IF doc[f] # loaded[f] THEN doc[f] ELSE stored[f]]

\* The paths of a loaded stage that the handler assigned.
ChangedPaths(loaded, doc) ==
  {f \in StagePaths \ {"name"} : doc[f] # loaded[f]}
    \cup (loaded.missing \ doc.missing)

\* The stages of the loaded array that save() writes to, by position.
PositionalWrites(loaded, doc) ==
  {i \in 1 .. Len(loaded.preSaleStages) :
     doc.preSaleStages[i] # loaded.preSaleStages[i]}

\* A positional write ($set of preSaleStages.<i>.<path>) on the stored
\* element: the assigned paths get the handler's values.
MergeStage(stored, loaded, doc) ==
  [f \in DOMAIN stored |->
     IF f = "missing" THEN stored.missing \ ChangedPaths(loaded, doc)
     ELSE IF f \in ChangedPaths(loaded, doc) THEN doc[f]
     ELSE stored[f]]

\* A positional write beyond the end of the stored array: the store
\* creates an element that has the assigned paths only.
HoleStage(loaded, doc) ==
  MergeStage([price |-> undefined, ticketLimit |-> undefined, ticketsSold |-> 0,
              endDate |-> undefined, isActive |-> TRUE, missing |-> StagePaths],
             loaded, doc)

\* What save() writes of a loaded event: the changed paths of the status
\* and of the free pool, the changed paths of the stages it loaded, by
\* their position in the array (the stored array is padded with null up
\* to the position written), and the stages it pushed, appended to the
\* stored array; a push increments the version key.
MergeDoc(stored, loaded, doc) ==
  LET w == PositionalWrites(loaded, doc)
      n == Len(stored.preSaleStages)
      top == IF \E i \in w : i > n THEN CHOOSE i \in w : \A j \in w : j <= i
             ELSE n
  IN
  [stored EXCEPT
     !.status = IF doc.status # loaded.status THEN doc.status ELSE @,
     !.preSaleStages =
        [i \in 1 .. top |->
           IF i \in w
             THEN IF i <= n
                    THEN MergeStage(@[i], loaded.preSaleStages[i],
                                    doc.preSaleStages[i])
                    ELSE HoleStage(loaded.preSaleStages[i], doc.preSaleStages[i])
             ELSE IF i <= n THEN @[i] ELSE NullStage]
        \o SubSeq(doc.preSaleStages, Len(loaded.preSaleStages) + 1,
                  Len(doc.preSaleStages)),
     !.freeTickets = MergePaths(@, loaded.freeTickets, doc.freeTickets),
     !.v = IF Len(doc.preSaleStages) > Len(loaded.preSaleStages) THEN @ + 1 ELSE @]

\* await event.save() of the document `doc` that a handler loaded as
\* `loaded` from the event id: the validators and the save hook run on
\* doc (the hook throws on a null stage); a write to a path inside a
\* loaded stage carries the version key of the load and is refused when
\* the stored version has moved on; a save that finds no document is
\* refused; the store refuses a write to a path inside a null element.
\* [ok, err, events]: events is the store afterwards.
EventSaveLoaded(evs, id, loaded, doc, t) ==
  LET fail(err) == [ok |-> FALSE, err |-> err, events |-> evs]
  IN IF ~EventValid(doc, t) THEN fail("EventValidationError")
     ELSE IF HasNullStage(doc) THEN fail("TypeError")
     ELSE
       LET d == EventPreSave(doc, t)
           w == PositionalWrites(loaded, d)
           pushed == Len(d.preSaleStages) > Len(loaded.preSaleStages)
       IN IF id \notin DOMAIN evs
            THEN fail(IF w # {} \/ pushed THEN "VersionError"
                      ELSE "DocumentNotFoundError")
          ELSE IF w # {} /\ evs[id].v # loaded.v THEN fail("VersionError")
          ELSE IF \E i \in w : /\ i <= Len(evs[id].preSaleStages)
                                /\ evs[id].preSaleStages[i] = NullStage
            THEN fail("MongoServerError")
          ELSE [ok |-> TRUE, err |-> "",
                events |-> [evs EXCEPT ![id] = MergeDoc(@, loaded, d)]]

\* stage.ticketsSold += quantity on a loaded stage.
SellTickets(stage, quantity) ==
  [stage EXCEPT !.ticketsSold = @ + quantity, !.missing = @ \ {"ticketsSold"}]

\* eventSchema.methods.buyPreSaleTickets(stageIndex, quantity) on a loaded
\* event, up to its this.save(): [ok, doc, res]; res names the Error
\* thrown, doc is the document the method goes on to save.
buyPreSaleTickets(event, stageIndex, quantity, t) ==
  LET fail(code) == [ok |-> FALSE, doc |-> event, res |-> code]
  IN
  IF stageIndex >= Len(event.preSaleStages) THEN fail("InvalidStage")
  \* preSaleStages[-1] is undefined; reading stage.isActive throws
  ELSE IF stageIndex < 0 THEN fail("TypeError")
  ELSE
    LET stage == event.preSaleStages[stageIndex + 1] IN
    IF stage = NullStage THEN fail("TypeError")
    ELSE IF ~stage.isActive THEN fail("StageInactive")
    ELSE IF JsLess(stage.endDate, t) THEN fail("StageExpired")
    ELSE IF JsGreater(stage.ticketsSold + quantity, stage.ticketLimit)
      THEN fail("StageSoldOut")
    ELSE [ok |-> TRUE, res |-> "save",
          doc |-> [event EXCEPT !.preSaleStages[stageIndex + 1] =
                                   SellTickets(@, quantity)]]

\* eventSchema.methods.claimFreeTicket(quantity), up to its this.save():
\* the counter moves only when quantity > 0 is configured.
claimFreeTicket(event, quantity, t) ==
  LET fail(code) == [ok |-> FALSE, doc |-> event, res |-> code]
  IN
  IF ~event.freeTickets.enabled THEN fail("FreeTicketsDisabled")
  ELSE IF /\ event.freeTickets.quantity > 0
          /\ event.freeTickets.ticketsClaimed + quantity > event.freeTickets.quantity
    THEN fail("FreeTicketsSoldOut")
  ELSE [ok |-> TRUE, res |-> "save",
        doc |-> IF event.freeTickets.quantity > 0
                  THEN [event EXCEPT !.freeTickets.ticketsClaimed = @ + quantity]
                  ELSE event]

\* eventSchema.methods.addPreSaleStage(stageData), up to its this.save().
addPreSaleStage(event, stageData) ==
  [event EXCEPT !.preSaleStages = Append(@, stageData)]

\* A stage as PATCH /:id/pre-sale/stage and POST /events build it.
NewStage(price, limit, endDate) ==
  [price |-> price, ticketLimit |-> limit, ticketsSold |-> 0,
   endDate |-> endDate, isActive |-> TRUE, missing |-> {}]

\* new Event({...}) of POST /events, before save; v is the version key
\* (__v) of the document.
NewEvent(date, basePrice, stages, enabled, quantity) ==
  [date |-> date, basePrice |-> basePrice, status |-> "active",
   preSaleStages |-> stages,
   freeTickets |-> [enabled |-> enabled, quantity |-> quantity, ticketsClaimed |-> 0],
   cancellationReason |-> "", cancelledAt |-> undefined, v |-> 0]

\* ------------------------------------------------------ Reservation model
PaymentStatuses == {"pending", "approved", "rejected", "cancelled", "refunded"}
PaymentMethods == {"mercadopago", "free", "other"}
\* totalTickets: min 1, max 4.
MaxTicketsPerReservation == 4

\* new Reservation({...}) with the schema defaults for what `d` leaves out;
\* v is the version key (__v) of the document.  The ticket holders are
\* part of a reservation where the contact data is followed.
NewReservation(eventId, n, orderId, idx, isFree, status, method, payId, amount, paid) ==
  [reservationCode |-> undefined, eventId |-> eventId, totalTickets |-> n,
   orderId |-> orderId, preSaleStageIndex |-> idx, isFreeTicket |-> isFree,
   paymentStatus |-> status, paymentStatusDetail |-> "",
   paymentMethod |-> method, paymentId |-> payId,
   totalAmount |-> amount, isPaid |-> paid, paidAt |-> undefined,
   status |-> "confirmed", v |-> 0]

\* Validation of a Reservation document on save(): eventId required,
\* totalTickets in 1..4, the paymentStatus and paymentMethod enums, nombre
\* and apellido of every ticket required.
ReservationValid(r) ==
  /\ r.eventId # NoEvent
  /\ r.totalTickets >= 1
  /\ r.totalTickets <= MaxTicketsPerReservation
  /\ r.paymentStatus \in PaymentStatuses
  /\ r.paymentMethod \in PaymentMethods
  /\ "tickets" \in DOMAIN r =>
       \A j \in 1 .. Len(r.tickets) :
         r.tickets[j].nombre # "" /\ r.tickets[j].apellido # ""

\* reservationSchema.pre('save'): `c` is the code the clock and Math.random
\* produce, `modified` is isModified('paymentStatus').
ReservationPreSave(r, modified, c, t) ==
  LET r1 == IF r.reservationCode = undefined
              THEN [r EXCEPT !.reservationCode = c] ELSE r
  IN IF modified /\ r1.paymentStatus = "approved" /\ r1.paidAt = undefined
       THEN [r1 EXCEPT !.paidAt = t, !.isPaid = TRUE]
       ELSE r1

\* Codes the generator can produce: a fresh one, or one that a stored
\* reservation already has (same millisecond, same random suffix).  The
\* unique index answers the same for every stored code, so the first
\* stands for all of them.
FreshCode(rs) == Len(rs) + 1
CodeChoices(rs) ==
  {FreshCode(rs)} \cup (IF rs = <<>> THEN {} ELSE {rs[1].reservationCode})

\* A store without the unique index on reservationCode: a save whose code
\* is taken replaces the stored reservation that holds it.
ReservationInsertOverwrites(rs, r, modified, c, t) ==
  IF ~ReservationValid(r)
    THEN [ok |-> FALSE, err |-> "ValidationError", store |-> rs]
    ELSE LET d == ReservationPreSave(r, modified, c, t)
             hit == {i \in 1 .. Len(rs) : rs[i].reservationCode = d.reservationCode}
         IN IF hit # {}
              THEN [ok |-> TRUE, err |-> "",
                    store |-> [rs EXCEPT ![CHOOSE i \in hit : TRUE] = d]]
              ELSE [ok |-> TRUE, err |-> "", store |-> Append(rs, d)]

\* save() of a new Reservation: validation, pre('save'), then the insert,
\* which the unique index on reservationCode refuses for a duplicate.
ReservationInsert(rs, r, modified, c, t) ==
  IF ~ReservationValid(r)
    THEN [ok |-> FALSE, err |-> "ValidationError", store |-> rs]
    ELSE LET d == ReservationPreSave(r, modified, c, t)
         IN IF \E i \in 1 .. Len(rs) : rs[i].reservationCode = d.reservationCode
              THEN [ok |-> FALSE, err |-> "DuplicateKey", store |-> rs]
              ELSE [ok |-> TRUE, err |-> "", store |-> Append(rs, d)]

\* await reservation.save() of the stored reservation number i, which the
\* handler loaded as `loaded` and changed to `doc`: validation, pre('save')
\* with isModified('paymentStatus') taken against the load, then the write
\* of the changed paths.  A tickets array that the handler replaced is
\* written under the version key of the load, which the write increments;
\* the save is refused when the stored version has moved on.
ReservationUpdateLoaded(rs, i, loaded, doc, t) ==
  LET replaced == "tickets" \in DOMAIN doc /\ doc.tickets # loaded.tickets
  IN
  IF ~ReservationValid(doc)
    THEN [ok |-> FALSE, err |-> "ValidationError", store |-> rs]
  ELSE IF replaced /\ rs[i].v # loaded.v
    THEN [ok |-> FALSE, err |-> "VersionError", store |-> rs]
  ELSE [ok |-> TRUE, err |-> "",
        store |-> [rs EXCEPT ![i] =
                     [MergePaths(@, loaded,
                        ReservationPreSave(doc,
                                           doc.paymentStatus # loaded.paymentStatus,
                                           doc.reservationCode, t))
                        EXCEPT !.v = IF replaced THEN @ + 1 ELSE @]]]

\* Reservation.findOne({orderId}): the first stored match, 0 when none.
FindByOrderId(rs, oid) ==
  IF \E i \in 1 .. Len(rs) : rs[i].orderId = oid
    THEN CHOOSE i \in 1 .. Len(rs) :
           /\ rs[i].orderId = oid
           /\ \A j \in 1 .. (i - 1) : rs[j].orderId # oid
    ELSE 0

\* The HTTP answer (or the outcome of a background step) of the last
\* operation: which operation ran and how it ended.
Answer(op, res) == [op |-> op, res |-> res]

\* The bound on the consumption counters of the stored events.
CountersBounded(evs) ==
  \A e \in DOMAIN evs :
    /\ evs[e].freeTickets.ticketsClaimed <= MaxCount
    /\ \A i \in 1 .. Len(evs[e].preSaleStages) :
         evs[e].preSaleStages[i].ticketsSold <= MaxCount

\* The bound on the number of stages of the stored events and on the
\* version key that the pushes of stages increment.
StagesBounded(evs) ==
  \A e \in DOMAIN evs :
    Len(evs[e].preSaleStages) <= MaxStages /\ evs[e].v <= MaxVersion

\* The bound on the version key of the stored reservations, which the
\* replacements of their tickets increment.
TicketsBounded(rs) ==
  \A i \in 1 .. Len(rs) : rs[i].v <= MaxVersion

\* ------------------------------------------------------------------ clock
Tick ==
  /\ now < MaxTime
  /\ now' = now + 1
  /\ last' = Answer("tick", "ok")
  /\ UNCHANGED <<events, reservations, requests>>

\* --------------------------------------------------- POST /api/reservations
\* Request bodies: tickets.length n, the free flag, the stage index, the
\* orderId, the caller's isPaid, paymentMethod and totalAmount.
WellFormedBodies ==
  [eventId : EventIds,
   n : TicketCounts,
   isFreeTicket : BOOLEAN,
   preSaleStageIndex : StageIndexInputs,
   orderId : OrderIds \cup {NoOrder},
   isPaid : BOOLEAN,
   paymentMethod : {"", "card"},
   totalAmount : {0, 500}]

\* The same with an unknown event, with no ticket or with five.
ReservationBodies ==
  WellFormedBodies \cup
  {[b EXCEPT !.eventId = MissingEvent] : b \in WellFormedBodies} \cup
  {[b EXCEPT !.n = k] : b \in WellFormedBodies,
                         k \in {0, MaxTicketsPerReservation + 1}}

\* The reservation document of the handler (reservationData).
ReservationData(b) ==
  NewReservation(b.eventId, b.n, b.orderId,
                 IF b.isFreeTicket THEN undefined ELSE b.preSaleStageIndex,
                 b.isFreeTicket, "pending",
                 IF b.paymentMethod # "" THEN b.paymentMethod
                 ELSE IF b.isFreeTicket THEN "free" ELSE "mercadopago",
                 "", b.totalAmount, b.isPaid)

\* A variant of the last step that takes the tickets back from the counter
\* when the reservation cannot be saved.
CreateReservationRollsBack(evs, rs, b, c, t) ==
  LET ins == ReservationInsert(rs, ReservationData(b), FALSE, c, t)
      back == [evs EXCEPT ![b.eventId] =
                 IF b.isFreeTicket
                   THEN [@ EXCEPT !.freeTickets.ticketsClaimed = @ - b.n]
                 ELSE IF b.preSaleStageIndex # undefined
                   THEN [@ EXCEPT !.preSaleStages[b.preSaleStageIndex + 1].ticketsSold
                                    = @ - b.n]
                 ELSE @]
  IN [events |-> IF ins.ok THEN evs ELSE back, reservations |-> ins.store,
      res |-> IF ins.ok THEN "Created" ELSE ins.err]

\* The last step of the handler: save the reservation, answer 201 or 500.
CreateReservation(evs, rs, b, c, t) ==
  LET ins == ReservationInsert(rs, ReservationData(b), FALSE, c, t)
  IN [events |-> evs, reservations |-> ins.store,
      res |-> IF ins.ok THEN "Created" ELSE ins.err]

\* A variant of the stage check that lets one ticket too many through.
StageSoldOutLate(stage, n) ==
  JsGreater(stage.ticketsSold + n, JsPlus(stage.ticketLimit, 1))

\* The handler's check of the stage's room for n more tickets.
StageSoldOut(stage, n) == JsGreater(stage.ticketsSold + n, stage.ticketLimit)

\* A variant of the pool check that lets one ticket too many through.
FreePoolExhaustedLate(ft, n) ==
  ft.quantity > 0 /\ ft.ticketsClaimed + n > ft.quantity + 1

\* The handler's check of the free pool's room for n more tickets.
FreePoolExhausted(ft, n) ==
  ft.quantity > 0 /\ ft.ticketsClaimed + n > ft.quantity

\* The checks of the handler on the event it loaded: the refusal it
\* answers, or "pass".
ReservationCheck(evs, b, t) ==
  IF b.eventId \notin DOMAIN evs THEN "EventNotFound"
  ELSE IF b.n = 0 \/ b.n > MaxTicketsPerReservation THEN "InvalidTicketCount"
  ELSE
    LET event == evs[b.eventId] IN
    IF b.isFreeTicket THEN
      IF ~event.freeTickets.enabled THEN "FreeTicketsDisabled"
      ELSE IF FreePoolExhausted(event.freeTickets, b.n) THEN "FreeTicketsSoldOut"
      ELSE "pass"
    ELSE IF b.preSaleStageIndex # undefined THEN
      IF b.preSaleStageIndex >= Len(event.preSaleStages) THEN "InvalidStage"
      \* preSaleStages[-1] is undefined; reading stage.isActive throws
      ELSE IF b.preSaleStageIndex < 0 THEN "TypeError"
      ELSE IF event.preSaleStages[b.preSaleStageIndex + 1] = NullStage
        THEN "TypeError"
      ELSE IF ~event.preSaleStages[b.preSaleStageIndex + 1].isActive
        THEN "StageInactive"
      ELSE IF JsLess(event.preSaleStages[b.preSaleStageIndex + 1].endDate, t)
        THEN "StageExpired"
      ELSE IF StageSoldOut(event.preSaleStages[b.preSaleStageIndex + 1], b.n)
        THEN "StageSoldOut"
      ELSE "pass"
    ELSE "pass"

\* The loaded document after the handler's increment.
Incremented(loaded, b) ==
  IF b.isFreeTicket
    THEN [loaded EXCEPT !.freeTickets.ticketsClaimed = @ + b.n]
    ELSE [loaded EXCEPT !.preSaleStages[b.preSaleStageIndex + 1] =
                          SellTickets(@, b.n)]

\* From the request to the first save: await Event.findById, the checks
\* on the loaded event, the increment in memory.  A request that asks for
\* neither a free ticket nor a stage goes on to the reservation.
RequestRead(p, b) ==
  LET r == ReservationCheck(events, b, now)
  IN /\ requests[p] = Idle
     /\ IF r # "pass"
          THEN /\ last' = Answer("postReservation", r)
               /\ UNCHANGED requests
          ELSE /\ last' = Answer("postReservation:load", "pass")
               /\ requests' =
                    [requests EXCEPT ![p] =
                       [pc |-> IF b.isFreeTicket \/ b.preSaleStageIndex # undefined
                                 THEN "checked" ELSE "eventSaved",
                        body |-> b, loaded |-> events[b.eventId]]]
     /\ UNCHANGED <<now, events, reservations>>

\* A store that adds the tickets to the stored counter and refuses when
\* the stored counter has no room for them.
RequestSaveEventAtomic(p) ==
  LET b == requests[p].body
      r == ReservationCheck(events, b, now)
  IN /\ requests[p].pc = "checked"
     /\ IF r = "pass"
          THEN /\ CountersBounded([events EXCEPT ![b.eventId] = Incremented(@, b)])
               /\ events' = [events EXCEPT ![b.eventId] = Incremented(@, b)]
               /\ requests' = [requests EXCEPT ![p].pc = "eventSaved"]
               /\ last' = Answer("postReservation:save", "saved")
          ELSE /\ requests' = [requests EXCEPT ![p] = Idle]
               /\ last' = Answer("postReservation", r)
               /\ UNCHANGED events
     /\ UNCHANGED <<now, reservations>>

\* await event.save() of the loaded and incremented document; a save that
\* throws is answered 500.
RequestSaveEvent(p) ==
  /\ requests[p].pc = "checked"
  /\ LET b == requests[p].body
         sv == EventSaveLoaded(events, b.eventId, requests[p].loaded,
                               Incremented(requests[p].loaded, b), now)
     IN /\ CountersBounded(sv.events)
        /\ events' = sv.events
        /\ IF sv.ok
             THEN /\ requests' = [requests EXCEPT ![p].pc = "eventSaved"]
                  /\ last' = Answer("postReservation:save", "saved")
             ELSE /\ requests' = [requests EXCEPT ![p] = Idle]
                  /\ last' = Answer("postReservation", sv.err)
  /\ UNCHANGED <<now, reservations>>

\* await newReservation.save() and the answer.
RequestSaveReservation(p, c) ==
  /\ requests[p].pc = "eventSaved"
  /\ LET o == CreateReservation(events, reservations, requests[p].body, c, now)
     IN /\ Len(o.reservations) <= MaxReservations
        /\ events' = o.events
        /\ reservations' = o.reservations
        /\ last' = Answer("postReservation", o.res)
  /\ requests' = [requests EXCEPT ![p] = Idle]
  /\ UNCHANGED now

\* ---------------------------------------------------- the model's methods
\* A caller loads the event and calls buyPreSaleTickets on it: the load
\* and the method up to its this.save().
BuyPreSaleTickets(p, eventId, stageIndex, quantity) ==
  LET o == buyPreSaleTickets(events[eventId], stageIndex, quantity, now)
  IN /\ requests[p] = Idle
     /\ eventId \in DOMAIN events
     /\ IF ~o.ok
          THEN /\ last' = Answer("buyPreSaleTickets", o.res)
               /\ UNCHANGED requests
          ELSE /\ last' = Answer("buyPreSaleTickets:load", "pass")
               /\ requests' =
                    [requests EXCEPT ![p] =
                       [pc |-> "method:save", op |-> "buyPreSaleTickets",
                        eventId |-> eventId, loaded |-> events[eventId],
                        doc |-> o.doc]]
     /\ UNCHANGED <<now, events, reservations>>

\* A caller loads the event and calls claimFreeTicket on it.
ClaimFreeTicket(p, eventId, quantity) ==
  LET o == claimFreeTicket(events[eventId], quantity, now)
  IN /\ requests[p] = Idle
     /\ eventId \in DOMAIN events
     /\ IF ~o.ok
          THEN /\ last' = Answer("claimFreeTicket", o.res)
               /\ UNCHANGED requests
          ELSE /\ last' = Answer("claimFreeTicket:load", "pass")
               /\ requests' =
                    [requests EXCEPT ![p] =
                       [pc |-> "method:save", op |-> "claimFreeTicket",
                        eventId |-> eventId, loaded |-> events[eventId],
                        doc |-> o.doc]]
     /\ UNCHANGED <<now, events, reservations>>

\* A caller loads the event and calls addPreSaleStage on it.
AddPreSaleStage(p, eventId, stageData) ==
  /\ requests[p] = Idle
  /\ eventId \in DOMAIN events
  /\ last' = Answer("addPreSaleStage:load", "pass")
  /\ requests' =
       [requests EXCEPT ![p] =
          [pc |-> "method:save", op |-> "addPreSaleStage",
           eventId |-> eventId, loaded |-> events[eventId],
           doc |-> addPreSaleStage(events[eventId], stageData)]]
  /\ UNCHANGED <<now, events, reservations>>

\* return this.save() of the three methods: the promise the caller awaits.
MethodSave(p) ==
  /\ requests[p].pc = "method:save"
  /\ LET r == requests[p]
         sv == EventSaveLoaded(events, r.eventId, r.loaded, r.doc, now)
     IN /\ CountersBounded(sv.events)
        /\ StagesBounded(sv.events)
        /\ events' = sv.events
        /\ last' = Answer(r.op, IF sv.ok THEN "saved" ELSE sv.err)
  /\ requests' = [requests EXCEPT ![p] = Idle]
  /\ UNCHANGED <<now, reservations>>

\* ------------------------------------------------- the payment gateway
\* What paymentClient.get({id}) returns.  The gateway fixes a payment's
\* order, amount and metadata; its status is whatever the gateway reports
\* at the time of the call.
PaymentIds == {1, 2, 3}
GatewayStatuses ==
  {"approved", "rejected", "cancelled", "pending", "in_process", "refunded"}

PaymentMetadata(id) ==
  CASE id = 1 -> [event_id |-> "e1", tickets |-> 1, pre_sale_stage |-> 0]
    [] id = 2 -> [event_id |-> "e1", tickets |-> 2, pre_sale_stage |-> 1]
    [] OTHER  -> [event_id |-> NoEvent, tickets |-> undefined,
                  pre_sale_stage |-> undefined]

GatewayPayment(id, status) ==
  [id |-> id, status |-> status,
   external_reference |-> IF id = 3 THEN "o2" ELSE "o1",
   transaction_amount |-> id * 100,
   status_detail |-> IF status = "rejected" THEN "cc_rejected_other_reason" ELSE "",
   metadata |-> PaymentMetadata(id)]

\* String(payment.id): paymentId is a String path of the schema.
PaymentIdString(id) ==
  CASE id = 1 -> "1" [] id = 2 -> "2" [] OTHER -> "3"

\* JavaScript truthiness of a number or undefined.
Truthy(x) == x # undefined /\ x # 0

\* updateEventAfterPayment(metadata, ticketsCount) from its await
\* Event.findById to its event.save(): whether it goes on to save, and the
\* document it loaded and the one it saves.
updateEventAfterPayment(evs, metadata, ticketsCount) ==
  LET none == [save |-> FALSE]
  IN
  IF metadata.event_id \notin DOMAIN evs THEN none
  ELSE IF metadata.pre_sale_stage = undefined THEN none
  ELSE
    LET event == evs[metadata.event_id]
        k == metadata.pre_sale_stage + 1
    IN IF k < 1 \/ k > Len(event.preSaleStages) THEN none
       \* event.preSaleStages[stageIndex] is falsy for a null element
       ELSE IF event.preSaleStages[k] = NullStage THEN none
       ELSE [save |-> TRUE, eventId |-> metadata.event_id, loaded |-> event,
             doc |-> [event EXCEPT !.preSaleStages[k] =
                                     SellTickets(@, ticketsCount)]]

\* A variant of the update branch that leaves totalAmount as it was.
ApprovedUpdateKeepsAmount(r, payment, t) ==
  [r EXCEPT !.paymentStatus = "approved",
            !.paymentId = PaymentIdString(payment.id),
            !.isPaid = TRUE,
            !.paidAt = t]

\* The else branch of processApprovedPayment: the five assignments to the
\* reservation that findOne returned.
ApprovedUpdate(r, payment, t) ==
  [r EXCEPT !.paymentStatus = "approved",
            !.paymentId = PaymentIdString(payment.id),
            !.isPaid = TRUE,
            !.totalAmount = payment.transaction_amount,
            !.paidAt = t]

\* metadata.tickets || 1
PaymentTickets(payment) ==
  IF Truthy(payment.metadata.tickets) THEN payment.metadata.tickets ELSE 1

\* processApprovedPayment(payment) from its await Reservation.findOne to
\* its reservation.save(): i is the reservation found (0: none, a new one
\* is built), doc the document it goes on to save.
processApprovedPayment(rs, payment, t) ==
  LET metadata == payment.metadata
      i == FindByOrderId(rs, payment.external_reference)
      new == NewReservation(metadata.event_id, PaymentTickets(payment),
               payment.external_reference,
               IF Truthy(metadata.pre_sale_stage)
                 THEN metadata.pre_sale_stage ELSE undefined,
               FALSE, "approved", "mercadopago",
               PaymentIdString(payment.id), payment.transaction_amount, TRUE)
  IN IF i = 0
       THEN [save |-> TRUE, i |-> 0, loaded |-> new, doc |-> new]
       ELSE [save |-> TRUE, i |-> i, loaded |-> rs[i],
             doc |-> ApprovedUpdate(rs[i], payment, t)]

\* A variant that leaves isPaid as it was.
SetPaymentStatusKeepsPaid(rs, orderId, status, detail) ==
  LET i == FindByOrderId(rs, orderId)
  IN IF i = 0 THEN [save |-> FALSE]
     ELSE [save |-> TRUE, i |-> i, loaded |-> rs[i],
           doc |-> [rs[i] EXCEPT !.paymentStatus = status,
                                 !.paymentStatusDetail = detail]]

\* processRejectedPayment / processCancelledPayment / processPendingPayment
\* from the await Reservation.findOne to the reservation.save(): nothing to
\* save when no reservation has the orderId, else the fields set on it.
SetPaymentStatus(rs, orderId, status, detail) ==
  LET i == FindByOrderId(rs, orderId)
  IN IF i = 0 THEN [save |-> FALSE]
     ELSE [save |-> TRUE, i |-> i, loaded |-> rs[i],
           doc |-> [rs[i] EXCEPT !.paymentStatus = status,
                                 !.paymentStatusDetail = detail,
                                 !.isPaid = FALSE]]

processRejectedPayment(rs, orderId, statusDetail) ==
  SetPaymentStatus(rs, orderId, "rejected", statusDetail)

processCancelledPayment(rs, orderId) ==
  LET i == FindByOrderId(rs, orderId)
  IN SetPaymentStatus(rs, orderId, "cancelled",
                      IF i = 0 THEN "" ELSE rs[i].paymentStatusDetail)

processPendingPayment(rs, orderId, status) ==
  LET i == FindByOrderId(rs, orderId)
  IN SetPaymentStatus(rs, orderId, status,
                      IF i = 0 THEN "" ELSE rs[i].paymentStatusDetail)

\* router.post('/webhook') once the payment was fetched: the dispatch on
\* payment.status, up to the first save of the branch taken.
DispatchPayment(rs, payment, t) ==
  CASE payment.status = "approved" -> processApprovedPayment(rs, payment, t)
    [] payment.status = "rejected" ->
         processRejectedPayment(rs, payment.external_reference,
                                payment.status_detail)
    [] payment.status = "cancelled" ->
         processCancelledPayment(rs, payment.external_reference)
    [] payment.status \in {"pending", "in_process"} ->
         processPendingPayment(rs, payment.external_reference, payment.status)
    [] OTHER -> [save |-> FALSE]

\* The answer of a finished run of the webhook's processing: whatever the
\* processing did, the handler answers 200 'OK'.
WebhookAnswer(payment, step) ==
  [op |-> "webhook:" \o payment.status, res |-> step, http |-> "200"]

\* The handler after the gateway returned `payment`: await
\* Reservation.findOne and the branch's code up to its reservation.save().
\* `d` is what the branch found and changed.
WebhookFound(p, payment, d) ==
  /\ requests[p] = Idle
  /\ IF ~d.save
       THEN /\ last' = WebhookAnswer(payment,
                         IF payment.status \in {"rejected", "cancelled", "pending",
                                                "in_process"}
                           THEN "notFound" ELSE "unhandled")
            /\ UNCHANGED requests
       ELSE /\ last' = Answer("webhookStep:findReservation", "found")
            /\ requests' =
                 [requests EXCEPT ![p] =
                    [pc |-> "webhook:saveReservation", payment |-> payment,
                     i |-> d.i, old |-> d.loaded, doc |-> d.doc]]
  /\ UNCHANGED <<now, events, reservations>>

\* A notification with type 'payment' whose payment the gateway returns.
WebhookPayment(p, id, status) ==
  WebhookFound(p, GatewayPayment(id, status),
               DispatchPayment(reservations, GatewayPayment(id, status), now))

\* await reservation.save() of the branch.  The approved branch rethrows
\* an error and otherwise goes on to updateEventAfterPayment; the other
\* branches log the error and end.
WebhookSaveReservation(p, c) ==
  /\ requests[p].pc = "webhook:saveReservation"
  /\ LET r == requests[p]
         sv == IF r.i = 0
                 THEN ReservationInsert(reservations, r.doc, TRUE, c, now)
                 ELSE ReservationUpdateLoaded(reservations, r.i, r.old, r.doc, now)
         step == IF r.i = 0 THEN "created" ELSE "updated"
     IN /\ Len(sv.store) <= MaxReservations
        /\ TicketsBounded(sv.store)
        /\ reservations' = sv.store
        /\ IF r.payment.status = "approved" /\ sv.ok
             THEN /\ requests' =
                       [requests EXCEPT ![p] =
                          [pc |-> "webhook:findEvent", payment |-> r.payment,
                           step |-> step]]
                  /\ last' = Answer("webhookStep:saveReservation", step)
             ELSE /\ requests' = [requests EXCEPT ![p] = Idle]
                  /\ last' = WebhookAnswer(r.payment,
                               IF sv.ok THEN "updated"
                               ELSE IF r.payment.status = "approved" THEN "threw"
                               ELSE "saveFailed")
  /\ UNCHANGED <<now, events>>

\* await Event.findById of updateEventAfterPayment and its code up to the
\* event.save().
WebhookFindEvent(p) ==
  /\ requests[p].pc = "webhook:findEvent"
  /\ LET r == requests[p]
         u == updateEventAfterPayment(events, r.payment.metadata,
                                      PaymentTickets(r.payment))
     IN IF ~u.save
          THEN /\ requests' = [requests EXCEPT ![p] = Idle]
               /\ last' = WebhookAnswer(r.payment, r.step)
          ELSE /\ requests' =
                    [requests EXCEPT ![p] =
                       [pc |-> "webhook:saveEvent", payment |-> r.payment,
                        step |-> r.step, eventId |-> u.eventId,
                        loaded |-> u.loaded, doc |-> u.doc]]
               /\ last' = Answer("webhookStep:findEvent", "found")
  /\ UNCHANGED <<now, events, reservations>>

\* await event.save() of updateEventAfterPayment; an error is logged.
WebhookSaveEvent(p) ==
  /\ requests[p].pc = "webhook:saveEvent"
  /\ LET r == requests[p]
         sv == EventSaveLoaded(events, r.eventId, r.loaded, r.doc, now)
     IN /\ CountersBounded(sv.events)
        /\ events' = sv.events
        /\ last' = WebhookAnswer(r.payment, r.step)
  /\ requests' = [requests EXCEPT ![p] = Idle]
  /\ UNCHANGED <<now, reservations>>

\* ---------------------------------------------- POST /direct-reservation
\* The orderId the handler builds (DIRECT_<event>_<time>_<random>).
DirectOrderId == "direct"

\* The checks on the event that findById returned: the refusal, or "pass".
DirectReservationCheck(evs, eventId) ==
  IF eventId \notin DOMAIN evs THEN "EVENT_NOT_FOUND"
  ELSE IF evs[eventId].status # "active" THEN "EVENT_NOT_ACTIVE"
  ELSE "pass"

\* From the request to the first save: await Event.findById, the checks,
\* the new Reservation.
DirectReservation(p, eventId, n) ==
  LET r == DirectReservationCheck(events, eventId)
  IN /\ requests[p] = Idle
     /\ IF r # "pass"
          THEN /\ last' = Answer("directReservation", r)
               /\ UNCHANGED requests
          ELSE /\ last' = Answer("directReservation:load", "pass")
               /\ requests' =
                    [requests EXCEPT ![p] =
                       [pc |-> "direct:saveReservation", eventId |-> eventId,
                        n |-> n, loaded |-> events[eventId]]]
     /\ UNCHANGED <<now, events, reservations>>

\* await reservation.save(); then the counter of the loaded event is
\* incremented when its pool is enabled.
DirectReservationSaveReservation(p, c) ==
  /\ requests[p].pc = "direct:saveReservation"
  /\ LET r == requests[p]
         ins == ReservationInsert(reservations,
                  NewReservation(r.eventId, r.n, DirectOrderId, undefined, TRUE,
                                 "approved", "free", "", 0, TRUE),
                  TRUE, c, now)
     IN /\ Len(ins.store) <= MaxReservations
        /\ reservations' = ins.store
        /\ IF ins.ok /\ r.loaded.freeTickets.enabled
             THEN /\ requests' = [requests EXCEPT ![p].pc = "direct:saveEvent"]
                  /\ last' = Answer("directReservation:saveReservation", "saved")
             ELSE /\ requests' = [requests EXCEPT ![p] = Idle]
                  /\ last' = Answer("directReservation",
                                    IF ins.ok THEN "ok" ELSE "DIRECT_RESERVATION_ERROR")
  /\ UNCHANGED <<now, events>>

\* await event.save() and the answer.
DirectReservationSaveEvent(p) ==
  /\ requests[p].pc = "direct:saveEvent"
  /\ LET r == requests[p]
         sv == EventSaveLoaded(events, r.eventId, r.loaded,
                 [r.loaded EXCEPT !.freeTickets.ticketsClaimed = @ + r.n], now)
     IN /\ CountersBounded(sv.events)
        /\ events' = sv.events
        /\ last' = Answer("directReservation",
                          IF sv.ok THEN "ok" ELSE "DIRECT_RESERVATION_ERROR")
  /\ requests' = [requests EXCEPT ![p] = Idle]
  /\ UNCHANGED <<now, reservations>>

\* ----------------------------------------------- POST /create-preference
\* Request bodies: the event, the ticket count, the orderId, and the
\* metadata's pre_sale_stage and is_free_ticket; gateway says how
\* preferenceClient.create ends.
PreferenceBodies ==
  [eventId : EventIds \cup {MissingEvent},
   tickets : TicketCounts,
   orderId : OrderIds,
   pre_sale_stage : StageIndexInputs,
   is_free_ticket : BOOLEAN,
   unit_price : {0, 50},
   gateway : {"ok", "MP_AUTH_ERROR"}]

\* The handler's unitPrice once the requested stage passed its checks: the
\* stage's price, the base price when no stage is requested.
PreferenceUnitPrice(event, b) ==
  IF b.pre_sale_stage # undefined
    THEN event.preSaleStages[b.pre_sale_stage + 1].price
    ELSE event.basePrice

\* mpItems: parseFloat(item.unit_price) || parseFloat(unitPrice)
PreferenceItemPrice(event, b) ==
  IF b.unit_price # 0 THEN b.unit_price ELSE PreferenceUnitPrice(event, b)

\* The amount of the response's summary: unitPrice * tickets.
PreferenceAmount(event, b) ==
  IF PreferenceUnitPrice(event, b) = undefined THEN undefined
  ELSE PreferenceUnitPrice(event, b) * b.tickets

\* The handler on the event that findById returned, up to its next await:
\* the refusal it answers, "free" when it goes on to
\* createFreeTicketReservation, "gateway" when it goes on to create the
\* preference at the gateway.
CreatePreferenceCheck(evs, b, t) ==
  IF b.eventId \notin DOMAIN evs THEN "EVENT_NOT_FOUND"
  ELSE IF evs[b.eventId].status # "active" THEN "EVENT_NOT_ACTIVE"
  ELSE
    LET event == evs[b.eventId]
        k == b.pre_sale_stage + 1
        hasStage == /\ b.pre_sale_stage # undefined
                    /\ k >= 1 /\ k <= Len(event.preSaleStages)
        stageOk == /\ hasStage
                   /\ event.preSaleStages[k] # NullStage
                   /\ event.preSaleStages[k].isActive
                   /\ JsGreater(event.preSaleStages[k].endDate, t)
    IN
    IF b.pre_sale_stage # undefined /\ ~stageOk THEN "STAGE_NOT_AVAILABLE"
    ELSE IF /\ b.pre_sale_stage # undefined
            /\ JsGreater(event.preSaleStages[k].ticketsSold + b.tickets,
                         event.preSaleStages[k].ticketLimit)
      THEN "STAGE_SOLD_OUT"
    ELSE IF b.is_free_ticket THEN
      IF ~event.freeTickets.enabled THEN "FREE_TICKETS_DISABLED"
      ELSE IF /\ event.freeTickets.quantity > 0
              /\ event.freeTickets.ticketsClaimed + b.tickets
                   > event.freeTickets.quantity
        THEN "FREE_TICKETS_SOLD_OUT"
      ELSE "free"
    ELSE
      \* a price that is not a positive number throws while the items are built
      IF PreferenceItemPrice(event, b) <= 0 THEN "PREFERENCE_CREATION_ERROR"
      ELSE "gateway"

\* From the request to the next await: await Event.findById and the
\* checks; a free request goes on to its reservation, a paid one to the
\* gateway.
CreatePreference(p, b) ==
  LET r == CreatePreferenceCheck(events, b, now)
  IN /\ requests[p] = Idle
     /\ IF r \notin {"free", "gateway"}
          THEN /\ last' = Answer("createPreference", r)
               /\ UNCHANGED requests
          ELSE /\ last' = Answer("createPreference:load", r)
               /\ requests' =
                    [requests EXCEPT ![p] =
                       [pc |-> IF r = "free" THEN "free:saveReservation"
                               ELSE "preference:gateway",
                        body |-> b, loaded |-> events[b.eventId]]]
     /\ UNCHANGED <<now, events, reservations>>

\* await preferenceClient.create({ body }) and the answer: the preference
\* with the amount computed from the event as it was loaded, or the error
\* of the gateway.
CreatePreferenceGateway(p) ==
  /\ requests[p].pc = "preference:gateway"
  /\ last' = Answer("createPreference",
                    IF requests[p].body.gateway = "ok" THEN "preference"
                    ELSE requests[p].body.gateway)
  /\ requests' = [requests EXCEPT ![p] = Idle]
  /\ UNCHANGED <<now, events, reservations>>

\* createFreeTicketReservation(event, tickets, orderId, metadata): the
\* reservation it builds.
createFreeTicketReservation(eventId, tickets, orderId) ==
  NewReservation(eventId, tickets, orderId, undefined, TRUE,
                 "approved", "free", "", 0, TRUE)

\* await reservation.save() of createFreeTicketReservation; an error is
\* answered FREE_TICKET_ERROR.
CreatePreferenceSaveReservation(p, c) ==
  /\ requests[p].pc = "free:saveReservation"
  /\ LET r == requests[p]
         ins == ReservationInsert(reservations,
                  createFreeTicketReservation(r.body.eventId, r.body.tickets,
                                              r.body.orderId),
                  TRUE, c, now)
     IN /\ Len(ins.store) <= MaxReservations
        /\ reservations' = ins.store
        /\ IF ins.ok /\ r.loaded.freeTickets.enabled
             THEN /\ requests' = [requests EXCEPT ![p].pc = "free:saveEvent"]
                  /\ last' = Answer("createPreference:saveReservation", "saved")
             ELSE /\ requests' = [requests EXCEPT ![p] = Idle]
                  /\ last' = Answer("createPreference",
                                    IF ins.ok THEN "freeReserved" ELSE "FREE_TICKET_ERROR")
  /\ UNCHANGED <<now, events>>

\* await event.save() of createFreeTicketReservation and the answer.
CreatePreferenceSaveEvent(p) ==
  /\ requests[p].pc = "free:saveEvent"
  /\ LET r == requests[p]
         sv == EventSaveLoaded(events, r.body.eventId, r.loaded,
                 [r.loaded EXCEPT !.freeTickets.ticketsClaimed = @ + r.body.tickets],
                 now)
     IN /\ CountersBounded(sv.events)
        /\ events' = sv.events
        /\ last' = Answer("createPreference",
                          IF sv.ok THEN "freeReserved" ELSE "FREE_TICKET_ERROR")
  /\ requests' = [requests EXCEPT ![p] = Idle]
  /\ UNCHANGED <<now, reservations>>

\* ------------------------------------------ PATCH /events/:id/pre-sale/stage
\* The checks of the handler, the last one on the event that findById
\* returned: the refusal, or "pass".
AddStageCheck(evs, eventId, price, ticketLimit, endDate, t) ==
  IF price = 0 \/ ticketLimit = 0 THEN "MissingFields"
  ELSE IF eventId \notin DOMAIN evs THEN "EventNotFound"
  ELSE IF endDate <= t THEN "EndDateNotFuture"
  ELSE "pass"

\* From the request to the save: await Event.findById, the checks, the
\* push of the new stage.
AddStage(p, eventId, price, ticketLimit, endDate) ==
  LET r == AddStageCheck(events, eventId, price, ticketLimit, endDate, now)
  IN /\ requests[p] = Idle
     /\ IF r # "pass"
          THEN /\ last' = Answer("addStage", r)
               /\ UNCHANGED requests
          ELSE /\ last' = Answer("addStage:load", "pass")
               /\ requests' =
                    [requests EXCEPT ![p] =
                       [pc |-> "addStage:save", eventId |-> eventId,
                        loaded |-> events[eventId],
                        doc |-> [events[eventId] EXCEPT !.preSaleStages =
                                   Append(@, NewStage(price, ticketLimit, endDate))]]]
     /\ UNCHANGED <<now, events, reservations>>

\* await event.save() and the answer.
AddStageSave(p) ==
  /\ requests[p].pc = "addStage:save"
  /\ LET r == requests[p]
         sv == EventSaveLoaded(events, r.eventId, r.loaded, r.doc, now)
     IN /\ StagesBounded(sv.events)
        /\ events' = sv.events
        /\ last' = Answer("addStage", IF sv.ok THEN "ok" ELSE sv.err)
  /\ requests' = [requests EXCEPT ![p] = Idle]
  /\ UNCHANGED <<now, reservations>>

\* ------------------------------ PATCH /events/:id/pre-sale/stage/:stageIndex
\* The updates of a request: a field that is absent is `undefined`
\* ("absent" for isActive).
StageUpdates ==
  [endDate : {undefined} \cup EndDates,
   price : {undefined, 150},
   ticketLimit : {undefined} \cup Limits,
   isActive : OptionalBool]

\* The updates that change at most one field.
SingleUpdates ==
  {u \in StageUpdates :
     Cardinality({f \in {"endDate", "price", "ticketLimit"} : u[f] # undefined})
       + (IF u.isActive = "absent" THEN 0 ELSE 1) <= 1}

NoUpdates ==
  [endDate |-> undefined, price |-> undefined, ticketLimit |-> undefined,
   isActive |-> "absent"]

\* The checks of the handler on the event that findById returned: the
\* refusal (or the error thrown), or "pass".
EditStageCheck(evs, eventId, stageIndex, u, t) ==
  IF eventId \notin DOMAIN evs THEN "EventNotFound"
  ELSE IF stageIndex >= Len(evs[eventId].preSaleStages) THEN "InvalidStage"
  ELSE IF u.endDate # undefined /\ u.endDate <= t THEN "EndDateNotFuture"
  \* preSaleStages[-1] is undefined and a padded element is null; the
  \* first assignment to it throws
  ELSE IF /\ \/ stageIndex < 0
             \/ evs[eventId].preSaleStages[stageIndex + 1] = NullStage
          /\ u # NoUpdates
    THEN "TypeError"
  ELSE "pass"

\* The loaded event after the assignments of the handler.
EditedStage(event, stageIndex, u) ==
  IF stageIndex < 0 THEN event
  ELSE IF event.preSaleStages[stageIndex + 1] = NullStage THEN event
  ELSE [event EXCEPT !.preSaleStages[stageIndex + 1] =
          [@ EXCEPT
             !.endDate = IF u.endDate # undefined THEN u.endDate ELSE @,
             !.price = IF u.price # undefined THEN u.price ELSE @,
             !.ticketLimit = IF u.ticketLimit # undefined THEN u.ticketLimit ELSE @,
             !.isActive = IF u.isActive = "absent" THEN @ ELSE u.isActive = "true",
             !.missing = @ \ ({f \in {"endDate", "price", "ticketLimit"} :
                                 u[f] # undefined}
                               \cup (IF u.isActive = "absent" THEN {}
                                      ELSE {"isActive"}))]]

\* From the request to the save: await Event.findById, the checks, the
\* assignments to the stage.
EditStage(p, eventId, stageIndex, u) ==
  LET r == EditStageCheck(events, eventId, stageIndex, u, now)
  IN /\ requests[p] = Idle
     /\ IF r # "pass"
          THEN /\ last' = Answer("editStage", r)
               /\ UNCHANGED requests
          ELSE /\ last' = Answer("editStage:load", "pass")
               /\ requests' =
                    [requests EXCEPT ![p] =
                       [pc |-> "editStage:save", eventId |-> eventId,
                        loaded |-> events[eventId],
                        doc |-> EditedStage(events[eventId], stageIndex, u)]]
     /\ UNCHANGED <<now, events, reservations>>

\* await event.save() and the answer.
EditStageSave(p) ==
  /\ requests[p].pc = "editStage:save"
  /\ LET r == requests[p]
         sv == EventSaveLoaded(events, r.eventId, r.loaded, r.doc, now)
     IN /\ events' = sv.events
        /\ last' = Answer("editStage", IF sv.ok THEN "ok" ELSE sv.err)
  /\ requests' = [requests EXCEPT ![p] = Idle]
  /\ UNCHANGED <<now, reservations>>

\* ----------------------------------------- PATCH /events/:id/free-tickets
\* From the request to the save: await Event.findById and the assignments
\* to the pool of the loaded event.
PatchFreeTickets(p, eventId, enabled, quantity) ==
  /\ requests[p] = Idle
  /\ IF eventId \notin DOMAIN events
       THEN /\ last' = Answer("patchFreeTickets", "EventNotFound")
            /\ UNCHANGED requests
       ELSE /\ last' = Answer("patchFreeTickets:load", "pass")
            /\ requests' =
                 [requests EXCEPT ![p] =
                    [pc |-> "patchFreeTickets:save", eventId |-> eventId,
                     loaded |-> events[eventId],
                     doc |-> [events[eventId] EXCEPT !.freeTickets =
                                [@ EXCEPT
                                   !.enabled = IF enabled = "absent" THEN @
                                               ELSE enabled = "true",
                                   !.quantity = IF quantity = undefined THEN @
                                                ELSE quantity]]]]
  /\ UNCHANGED <<now, events, reservations>>

\* await event.save() and the answer.
PatchFreeTicketsSave(p) ==
  /\ requests[p].pc = "patchFreeTickets:save"
  /\ LET r == requests[p]
         sv == EventSaveLoaded(events, r.eventId, r.loaded, r.doc, now)
     IN /\ events' = sv.events
        /\ last' = Answer("patchFreeTickets", IF sv.ok THEN "ok" ELSE sv.err)
  /\ requests' = [requests EXCEPT ![p] = Idle]
  /\ UNCHANGED <<now, reservations>>

\* ------------------------------------------------ PATCH /events/:id/status
\* The first registration of the route answers; `reason` is the request's
\* cancellationReason ("" when absent).  The handler awaits one store
\* operation, findByIdAndUpdate.  The keys that the handler sets to
\* undefined for a reactivation are not part of the update that is sent:
\* the stored reason and timestamp stay.
PatchStatusOutcome(evs, eventId, status, reason, t) ==
  LET fail(code) == [events |-> evs, res |-> code]
  IN
  IF status \notin {"active", "cancelled", "completed", "sold-out", "free-sold-out"}
    THEN fail("InvalidStatus")
  \* runValidators: the enum of the schema
  ELSE IF status \notin EventStatuses THEN fail("EventValidationError")
  ELSE IF eventId \notin DOMAIN evs THEN fail("EventNotFound")
  ELSE
    LET event == evs[eventId]
        e1 == [event EXCEPT !.status = status]
        e2 == IF status = "cancelled" /\ reason # ""
                THEN [e1 EXCEPT !.cancellationReason = reason, !.cancelledAt = t]
              ELSE e1
    IN [events |-> [evs EXCEPT ![eventId] = e2], res |-> "ok"]

PatchStatus(eventId, status, reason) ==
  LET o == PatchStatusOutcome(events, eventId, status, reason, now)
  IN /\ events' = o.events
     /\ last' = Answer("patchStatus", o.res)
     /\ UNCHANGED <<now, reservations, requests>>

\* -------------------------------------------------------- PUT /events/:id
\* Request bodies: date and basePrice (undefined when absent),
\* preSaleStages and freeTickets, each absent or given.  The stages of a
\* body are as an admin form sends them (no counters).
EventUpdateBodies ==
  [date : {undefined, 1, 5},
   basePrice : {undefined, 300},
   hasStages : BOOLEAN,
   preSaleStages : {<<>>, <<NewStage(100, 1, 3)>>, <<NewStage(0 - 5, 1, 3)>>},
   hasFreeTickets : BOOLEAN,
   freeTickets : {[enabled |-> TRUE, quantity |-> 1, ticketsClaimed |-> 0]}]

\* The checks of the handler on the body once findById returned the
\* event: the refusal, or "pass".
UpdateEventCheck(evs, eventId, b, t) ==
  IF eventId \notin DOMAIN evs THEN "EventNotFound"
  ELSE IF b.date # undefined /\ b.date < t THEN "DateInPast"
  ELSE IF b.basePrice # undefined /\ b.basePrice < 0 THEN "NegativeBasePrice"
  ELSE IF /\ b.hasStages
          /\ \E i \in 1 .. Len(b.preSaleStages) :
               \/ b.preSaleStages[i].price = 0
               \/ b.preSaleStages[i].price < 0
               \/ b.preSaleStages[i].ticketLimit < 1
               \/ b.preSaleStages[i].endDate <= t
    THEN "InvalidStageBody"
  ELSE "pass"

\* The update document of findByIdAndUpdate: each field is the body's
\* value, or the value of the event that findById returned.
UpdateDocument(existingEvent, b) ==
  [date |-> IF b.date # undefined THEN b.date ELSE existingEvent.date,
   basePrice |-> IF b.basePrice # undefined THEN b.basePrice
                 ELSE existingEvent.basePrice,
   preSaleStages |-> IF b.hasStages THEN b.preSaleStages
                     ELSE existingEvent.preSaleStages,
   freeTickets |-> IF b.hasFreeTickets THEN b.freeTickets
                   ELSE existingEvent.freeTickets]

\* runValidators on the update document: the validators of the paths it
\* sets.
UpdateDocumentValid(u, t) ==
  /\ u.date >= t
  /\ u.basePrice >= 0
  /\ \A i \in 1 .. Len(u.preSaleStages) : StageValid(u.preSaleStages[i], t)
  /\ FreeTicketsValid(u.freeTickets)

\* From the request to the update: await Event.findById, the checks of
\* the body, the update document.
UpdateEvent(p, eventId, b) ==
  LET r == UpdateEventCheck(events, eventId, b, now)
  IN /\ requests[p] = Idle
     /\ IF r # "pass"
          THEN /\ last' = Answer("updateEvent", r)
               /\ UNCHANGED requests
          ELSE /\ last' = Answer("updateEvent:load", "pass")
               /\ requests' =
                    [requests EXCEPT ![p] =
                       [pc |-> "updateEvent:write", eventId |-> eventId,
                        update |-> UpdateDocument(events[eventId], b)]]
     /\ UNCHANGED <<now, events, reservations>>

\* await Event.findByIdAndUpdate(id, update, {runValidators: true}) and the
\* answer; no save hook runs.  The handler answers 200 also when the event
\* is gone and the update returns null.
UpdateEventWrite(p) ==
  /\ requests[p].pc = "updateEvent:write"
  /\ LET r == requests[p]
         u == r.update
     IN IF ~UpdateDocumentValid(u, now)
          THEN /\ UNCHANGED events
               /\ last' = Answer("updateEvent", "EventValidationError")
        ELSE IF r.eventId \notin DOMAIN events
          THEN /\ UNCHANGED events
               /\ last' = Answer("updateEvent", "ok")
        ELSE /\ events' = [events EXCEPT ![r.eventId] =
                             [@ EXCEPT !.date = u.date,
                                       !.basePrice = u.basePrice,
                                       !.preSaleStages = u.preSaleStages,
                                       !.freeTickets = u.freeTickets]]
             /\ last' = Answer("updateEvent", "ok")
  /\ requests' = [requests EXCEPT ![p] = Idle]
  /\ UNCHANGED <<now, reservations>>

\* ----------------------------------------------------- DELETE /events/:id
\* await Event.findByIdAndDelete(req.params.id) and the answer.
DeleteEvent(eventId) ==
  /\ IF eventId \in DOMAIN events
       THEN /\ events' = [e \in DOMAIN events \ {eventId} |-> events[e]]
            /\ last' = Answer("deleteEvent", "ok")
       ELSE /\ UNCHANGED events
            /\ last' = Answer("deleteEvent", "EventNotFound")
  /\ UNCHANGED <<now, reservations, requests>>

\* ------------------------------------------- DELETE /reservations/:code
\* await Reservation.findOne({reservationCode}) and the assignment of the
\* status.
CancelReservation(p, code) ==
  LET hit == {i \in 1 .. Len(reservations) : reservations[i].reservationCode = code}
  IN /\ requests[p] = Idle
     /\ IF hit = {}
          THEN /\ last' = Answer("cancelReservation", "NotFound")
               /\ UNCHANGED requests
          ELSE LET i == CHOOSE j \in hit : TRUE
               IN /\ last' = Answer("cancelReservation:load", "found")
                  /\ requests' =
                       [requests EXCEPT ![p] =
                          [pc |-> "cancelReservation:save", i |-> i,
                           old |-> reservations[i],
                           doc |-> [reservations[i] EXCEPT !.status = "cancelled"]]]
     /\ UNCHANGED <<now, events, reservations>>

\* await reservation.save() and the answer.
CancelReservationSave(p) ==
  /\ requests[p].pc = "cancelReservation:save"
  /\ LET r == requests[p]
         upd == ReservationUpdateLoaded(reservations, r.i, r.old, r.doc, now)
     IN /\ reservations' = upd.store
        /\ last' = Answer("cancelReservation", IF upd.ok THEN "ok" ELSE upd.err)
  /\ requests' = [requests EXCEPT ![p] = Idle]
  /\ UNCHANGED <<now, events>>

\* ------------------------------------------------------- status sweeper
\* The order in which find() returns the events.
EventOrder == <<"e1", "e2">>

\* Step 1 of Event.updateEventStatuses: updateMany on past active events.
MarkCompleted(evs, t) ==
  [e \in DOMAIN evs |->
     IF evs[e].date < t /\ evs[e].status = "active"
       THEN [evs[e] EXCEPT !.status = "completed"] ELSE evs[e]]

\* The find() of step 2, a query on the stored elements: some stage has
\* an endDate that passed, some stage has isActive true.
NeedsDeactivation(ev, t) ==
  /\ \E i \in 1 .. Len(ev.preSaleStages) :
       /\ "endDate" \notin ev.preSaleStages[i].missing
       /\ JsLess(ev.preSaleStages[i].endDate, t)
  /\ \E i \in 1 .. Len(ev.preSaleStages) :
       /\ "isActive" \notin ev.preSaleStages[i].missing
       /\ ev.preSaleStages[i].isActive

\* The loop of step 2 over the stages of a found event.
DeactivateExpired(ev, t) ==
  [ev EXCEPT !.preSaleStages =
     [i \in 1 .. Len(ev.preSaleStages) |->
        IF JsLess(ev.preSaleStages[i].endDate, t)
          THEN [ev.preSaleStages[i] EXCEPT !.isActive = FALSE,
                                           !.missing = @ \ {"isActive"}]
          ELSE ev.preSaleStages[i]]]

\* updateEventStatuses() one await at a time: the updateMany, the find,
\* then one save per found event.  `at` is the `now` the run read when it
\* started; the validators of a save read the clock again.
SweepMark(p) ==
  /\ requests[p] = Idle
  /\ events' = MarkCompleted(events, now)
  /\ requests' = [requests EXCEPT ![p] = [pc |-> "marked", at |-> now]]
  /\ last' = Answer("sweep:updateMany", "ok")
  /\ UNCHANGED <<now, reservations>>

SweepFind(p) ==
  /\ requests[p].pc = "marked"
  /\ requests' =
       [requests EXCEPT ![p] =
          [pc |-> "found", at |-> requests[p].at, j |-> 1,
           found |-> [e \in {x \in DOMAIN events :
                               NeedsDeactivation(events[x], requests[p].at)}
                        |-> events[e]]]]
  /\ last' = Answer("sweep:find", "ok")
  /\ UNCHANGED <<now, events, reservations>>

\* The found events that the loop has not reached yet, by their position
\* in the order of find().
SweepRest(r) ==
  {j \in r.j .. Len(EventOrder) : EventOrder[j] \in DOMAIN r.found}

\* One turn of the loop: the next found event is changed and saved, or the
\* loop ends.  A save that throws ends the run: the job catches the error
\* outside the loop.
SweepSave(p) ==
  /\ requests[p].pc = "found"
  /\ LET r == requests[p]
         rest == SweepRest(r)
     IN IF rest = {}
          THEN /\ requests' = [requests EXCEPT ![p] = Idle]
               /\ last' = Answer("sweep", "ok")
               /\ UNCHANGED events
          ELSE LET j == CHOOSE x \in rest : \A y \in rest : x <= y
                   e == EventOrder[j]
                   sv == EventSaveLoaded(events, e, r.found[e],
                                         DeactivateExpired(r.found[e], r.at), now)
               IN /\ events' = sv.events
                  /\ IF sv.ok
                       THEN /\ requests' = [requests EXCEPT ![p].j = j + 1]
                            /\ last' = Answer("sweep:save", "saved")
                       ELSE /\ requests' = [requests EXCEPT ![p] = Idle]
                            /\ last' = Answer("sweep", "failed")
  /\ UNCHANGED <<now, reservations>>

\* ------------------------------------------------------------ POST /events
\* router.post('/') of events.js at time t: the document the store holds
\* for a new event with these stages and this free-ticket pool.
CreateEvent(date, basePrice, stages, enabled, quantity, t) ==
  EventSave(NewEvent(date, basePrice, stages, enabled, quantity),
            NewEvent(date, basePrice, stages, enabled, quantity), t).doc


\* ------------------------------------------------------ POST /webhook
\* The notification types a delivery can carry; only 'payment' is dispatched.
NotificationTypes == {"payment", "merchant_order"}

\* The whole handler: the body is destructured, data.id is read before the
\* inner try, the gateway lookup and the dispatch run inside it, and every
\* error of the inner block is logged and swallowed.  `found` says whether
\* paymentClient.get returns the payment.
WebhookDelivery(p, type, hasData, found, id, status) ==
  IF type = "payment" /\ hasData /\ found
    THEN WebhookPayment(p, id, status)
    ELSE /\ requests[p] = Idle
         /\ last' = [op |-> "delivery", res |-> "ignored",
                     http |-> IF type = "payment" /\ ~hasData THEN "500" ELSE "200"]
         /\ UNCHANGED <<now, events, reservations, requests>>

\* ------------------------------------------------------ contact backfill
\* The ticket holders of a reservation and the contact data of an approved
\* payment.  A customer_name is the sequence of its words (<<>> when the
\* metadata has none); "" is the empty or absent string.
Payers ==
  [first_name : {"", "Pau"}, last_name : {"", "Paz"}, email : {"", "pau@x"}]

ContactMetadata ==
  [customer_email : {"", "cat@x"},
   customer_name : {<<>>, <<"Cat">>, <<"Cat", "Cruz">>}]

TicketHolders ==
  [nombre : {"Ana"}, apellido : {"Diaz"}, email : {"", "ana@x"}]

TicketLists ==
  {<<h>> : h \in TicketHolders} \cup {<<h, g>> : h \in TicketHolders, g \in TicketHolders}

\* getUserInfoFromMetadata(metadata, paymentPayer)
getUserInfoFromMetadata(metadata, payer) ==
  LET e1 == IF metadata.customer_email # "" THEN metadata.customer_email ELSE ""
      n1 == IF metadata.customer_name # <<>> THEN metadata.customer_name[1]
            ELSE "Cliente"
      a1 == IF Len(metadata.customer_name) >= 2 THEN metadata.customer_name[2]
            ELSE "BARDO"
  IN [nombre |-> IF payer.first_name # "" THEN payer.first_name ELSE n1,
      apellido |-> IF payer.last_name # "" THEN payer.last_name ELSE a1,
      email |-> IF payer.email # "" THEN payer.email ELSE e1]

\* The tickets of the update branch of processApprovedPayment: when the
\* first ticket has no email and the payment brings one, every ticket is
\* mapped to userInfo.x || ticket.x.
BackfillTickets(tickets, userInfo) ==
  IF tickets # <<>> /\ tickets[1].email = "" /\ userInfo.email # ""
    THEN [j \in 1 .. Len(tickets) |->
            [email |-> IF userInfo.email # "" THEN userInfo.email
                       ELSE tickets[j].email,
             nombre |-> IF userInfo.nombre # "" THEN userInfo.nombre
                        ELSE tickets[j].nombre,
             apellido |-> IF userInfo.apellido # "" THEN userInfo.apellido
                          ELSE tickets[j].apellido]]
    ELSE tickets

\* The approved notification of a payment whose order has a reservation,
\* with the payer and the contact metadata the gateway returns: the update
\* branch of processApprovedPayment up to its reservation.save().
WebhookApprovedContact(p, id, payer, metadata) ==
  LET payment == GatewayPayment(id, "approved")
      d == processApprovedPayment(reservations, payment, now)
  IN /\ d.i # 0
     /\ WebhookFound(p, payment,
          [d EXCEPT !.doc.tickets =
             BackfillTickets(d.loaded.tickets,
                             getUserInfoFromMetadata(metadata, payer))])

\* ------------------------- PATCH /reservations/order/:orderId/contact
\* Request bodies of the route of reservations.js: the email ("" when
\* absent) and the name as the sequence of its words (<<>> when absent).
OrderContactBodies ==
  [email : {"", "eva@x"}, name : {<<>>, <<"Eva">>, <<"Eva", "Luna">>}]

\* The tickets the handler assigns: every ticket takes the email of the
\* body, the first word of the name as nombre and the rest as apellido.
OrderContactTickets(tickets, b) ==
  IF b.email # "" \/ b.name # <<>>
    THEN [j \in 1 .. Len(tickets) |->
            [email |-> IF b.email # "" THEN b.email ELSE tickets[j].email,
             nombre |-> IF b.name # <<>> THEN b.name[1] ELSE tickets[j].nombre,
             apellido |-> IF b.name # <<>>
                            THEN (IF Len(b.name) >= 2 THEN b.name[2] ELSE "")
                          ELSE tickets[j].apellido]]
    ELSE tickets

\* From the request to the save: await Reservation.findOne({orderId}) and
\* the assignment of the tickets.
PatchOrderContact(p, orderId, b) ==
  LET i == FindByOrderId(reservations, orderId)
  IN /\ requests[p] = Idle
     /\ IF i = 0
          THEN /\ last' = Answer("patchOrderContact", "NotFound")
               /\ UNCHANGED requests
          ELSE /\ last' = Answer("patchOrderContact:load", "found")
               /\ requests' =
                    [requests EXCEPT ![p] =
                       [pc |-> "orderContact:save", i |-> i,
                        old |-> reservations[i],
                        doc |-> [reservations[i] EXCEPT !.tickets =
                                   OrderContactTickets(@, b)]]]
     /\ UNCHANGED <<now, events, reservations>>

\* await reservation.save() and the answer.
PatchOrderContactSave(p) ==
  /\ requests[p].pc = "orderContact:save"
  /\ LET r == requests[p]
         upd == ReservationUpdateLoaded(reservations, r.i, r.old, r.doc, now)
     IN /\ TicketsBounded(upd.store)
        /\ reservations' = upd.store
        /\ last' = Answer("patchOrderContact", IF upd.ok THEN "ok" ELSE upd.err)
  /\ requests' = [requests EXCEPT ![p] = Idle]
  /\ UNCHANGED <<now, events>>

\* ----------------------- PATCH /mercadopago/reservation/:orderId/contact
\* Request bodies of the route of mercadopago.js: email, name and surname
\* ("" when absent).
ReservationContactBodies ==
  [email : {"", "eva@x"}, name : {"", "Eva"}, surname : {"", "Luna"}]

\* The tickets the handler assigns: every ticket takes body.x || ticket.x.
ReservationContactTickets(tickets, b) ==
  IF b.email # "" \/ b.name # ""
    THEN [j \in 1 .. Len(tickets) |->
            [email |-> IF b.email # "" THEN b.email ELSE tickets[j].email,
             nombre |-> IF b.name # "" THEN b.name ELSE tickets[j].nombre,
             apellido |-> IF b.surname # "" THEN b.surname
                          ELSE tickets[j].apellido]]
    ELSE tickets

\* From the request to the save: await Reservation.findOne({orderId}) and
\* the assignment of the tickets.
PatchReservationContact(p, orderId, b) ==
  LET i == FindByOrderId(reservations, orderId)
  IN /\ requests[p] = Idle
     /\ IF i = 0
          THEN /\ last' = Answer("patchReservationContact", "RESERVATION_NOT_FOUND")
               /\ UNCHANGED requests
          ELSE /\ last' = Answer("patchReservationContact:load", "found")
               /\ requests' =
                    [requests EXCEPT ![p] =
                       [pc |-> "reservationContact:save", i |-> i,
                        old |-> reservations[i],
                        doc |-> [reservations[i] EXCEPT !.tickets =
                                   ReservationContactTickets(@, b)]]]
     /\ UNCHANGED <<now, events, reservations>>

\* await reservation.save() and the answer.
PatchReservationContactSave(p) ==
  /\ requests[p].pc = "reservationContact:save"
  /\ LET r == requests[p]
         upd == ReservationUpdateLoaded(reservations, r.i, r.old, r.doc, now)
     IN /\ TicketsBounded(upd.store)
        /\ reservations' = upd.store
        /\ last' = Answer("patchReservationContact",
                          IF upd.ok THEN "ok" ELSE upd.err)
  /\ requests' = [requests EXCEPT ![p] = Idle]
  /\ UNCHANGED <<now, events>>

\* ------------------------------------------------------- request builders
\* The body of a request for n tickets of stage k of event e.
StageRequest(e, k, n) ==
  [eventId |-> e, n |-> n, isFreeTicket |-> FALSE, preSaleStageIndex |-> k,
   orderId |-> NoOrder, isPaid |-> FALSE, paymentMethod |-> "", totalAmount |-> 0]

\* The body of a free request for n tickets of event e.
FreeRequest(e, n, pm) ==
  [eventId |-> e, n |-> n, isFreeTicket |-> TRUE, preSaleStageIndex |-> undefined,
   orderId |-> NoOrder, isPaid |-> FALSE, paymentMethod |-> pm, totalAmount |-> 0]

\* The body of a request of the order o1 for n tickets of stage k.
OrderRequest(e, k, n) == [StageRequest(e, k, n) EXCEPT !.orderId = "o1"]

\* The body of a free create-preference request for n tickets of event e.
FreePreference(e, n) ==
  [eventId |-> e, tickets |-> n, orderId |-> "o1", pre_sale_stage |-> undefined,
   is_free_ticket |-> TRUE, unit_price |-> 0, gateway |-> "ok"]

\* The stage edits that switch a stage on or off and change nothing else.
StageSwitches == {[NoUpdates EXCEPT !.isActive = a] : a \in {"true", "false"}}

\* The free checkouts of one ticket.
FreePreferences == {FreePreference(e, 1) : e \in EventIds}

\* The counters of every event: ticketsSold of each stage, ticketsClaimed.
Counters(evs) ==
  [e \in DOMAIN evs |->
     [sold |-> [k \in 1 .. Len(evs[e].preSaleStages) |->
                  evs[e].preSaleStages[k].ticketsSold],
      claimed |-> evs[e].freeTickets.ticketsClaimed]]

\* The handlers of a specification that runs one request after the other.
Sequential == {"r1"}
\* The handlers of a specification in which the requests of the buyers and
\* of the gateway run one after the other, and so do the admin's, while the
\* steps of the two interleave.
Buyers == {"r1"}
Admins == {"r2"}
\* The same for the deliveries of the gateway and the requests of the
\* shoppers.
Gateway == {"r1"}
Shoppers == {"r2"}
\* The runs of the scheduled job, next to the deliveries of the gateway.
Scheduler == {"r2"}


\* The tickets of the stored reservations of event e against stage index k
\* (k = undefined: against the free pool).
RECURSIVE TicketsHeld(_, _, _, _)
TicketsHeld(rs, i, e, k) ==
  IF i > Len(rs) THEN 0
  ELSE (IF /\ rs[i].eventId = e
           /\ rs[i].isFreeTicket = (k = undefined)
           /\ rs[i].preSaleStageIndex = k
          THEN rs[i].totalTickets ELSE 0)
       + TicketsHeld(rs, i + 1, e, k)

\* ===================================================== pre-sale inventory
\* One event without free tickets and with at most one stage at the start;
\* reservations against the stage, approved payments, and the admin's
\* stage additions, stage edits and event updates, one await at a time.
StageRequestBodies == {OrderRequest(e, 0, n) : e \in EventIds, n \in TicketCounts}

\* An update sends a list of one stage.
StageUpdateBodies ==
  {b \in EventUpdateBodies :
     /\ ~b.hasFreeTickets
     /\ b.hasStages /\ b.preSaleStages # <<>>
     /\ b.date = undefined /\ b.basePrice = undefined}

\* A stage edit changes the limit or switches the stage off.
StageEdits ==
  {u \in SingleUpdates :
     u # NoUpdates /\ u.price = undefined /\ u.endDate = undefined /\ u.isActive # "true"}

\* The stages that a caller of addPreSaleStage adds.
MethodStages == {NewStage(150, l, 3) : l \in Limits}

InitStages ==
  /\ now = 0
  /\ \E st \in {<<>>} \cup {<<NewStage(100, l, d)>> : l \in Limits, d \in EndDates} :
       events = [e \in EventIds |-> CreateEvent(3, 200, st, FALSE, 0, 0)]
  /\ reservations = <<>>
  /\ requests = NoRequests
  /\ last = Answer("init", "ok")

NextStages ==
  \/ Tick
  \/ \E p \in Buyers, b \in StageRequestBodies : RequestRead(p, b)
  \/ \E p \in Buyers : RequestSaveEvent(p)
  \/ \E p \in Buyers, c \in CodeChoices(reservations) : RequestSaveReservation(p, c)
  \/ \E p \in Buyers : WebhookPayment(p, 1, "approved")
  \/ \E p \in Buyers, c \in CodeChoices(reservations) : WebhookSaveReservation(p, c)
  \/ \E p \in Buyers : WebhookFindEvent(p)
  \/ \E p \in Buyers : WebhookSaveEvent(p)
  \/ \E p \in Admins, e \in EventIds, l \in Limits, d \in EndDates :
       (e \in DOMAIN events => events[e].preSaleStages = <<>>)
         /\ AddStage(p, e, 100, l, d)
  \/ \E p \in Admins : AddStageSave(p)
  \/ \E p \in Admins, e \in EventIds, st \in MethodStages :
       (e \in DOMAIN events => events[e].preSaleStages = <<>>)
         /\ AddPreSaleStage(p, e, st)
  \/ \E p \in Admins : MethodSave(p)
  \/ \E p \in Admins, e \in EventIds, u \in StageEdits : EditStage(p, e, 0, u)
  \/ \E p \in Admins : EditStageSave(p)
  \/ \E p \in Admins, e \in EventIds, b \in StageUpdateBodies : UpdateEvent(p, e, b)
  \/ \E p \in Admins : UpdateEventWrite(p)

SpecStages == InitStages /\ [][NextStages]_vars

\* ------------------------------------------------------------ inventory
\* C1: every pre-sale stage of every event has 0 <= ticketsSold <=
\* ticketLimit, whatever reservations, approved payments, stage additions
\* and edits and event updates came before.  The stages are those the
\* store holds with a limit.
C1_SoldWithinLimit ==
  \A e \in DOMAIN events :
    \A k \in 1 .. Len(events[e].preSaleStages) :
      StageHas(events[e].preSaleStages[k], "ticketLimit")
        => /\ 0 <= events[e].preSaleStages[k].ticketsSold
           /\ events[e].preSaleStages[k].ticketsSold
                <= events[e].preSaleStages[k].ticketLimit

\* An approved payment has been counted on a stage that was full.
C1_SoldBeyondLimit ==
  /\ last.op = "webhook:approved"
  /\ \E e \in DOMAIN events :
       \E k \in 1 .. Len(events[e].preSaleStages) :
         /\ StageHas(events[e].preSaleStages[k], "ticketLimit")
         /\ events[e].preSaleStages[k].ticketsSold
              > events[e].preSaleStages[k].ticketLimit

\* The event has a stage and every active stage has sold its limit.
StagesExhausted(ev) ==
  /\ Len(ev.preSaleStages) >= 1
  /\ \A k \in 1 .. Len(ev.preSaleStages) :
       ev.preSaleStages[k].isActive
         => ev.preSaleStages[k].ticketsSold = ev.preSaleStages[k].ticketLimit

\* C30: the save hook moves an event from active to sold-out only when the
\* event has at least one stage and every active stage is exhausted: an
\* event as POST /events stored it is sold-out only then, and a save of an
\* active stored event turns it sold-out only then.
C30_SoldOutOnlyWhenExhausted ==
  \A e \in DOMAIN events :
    /\ (last.op = "init" /\ events[e].status = "sold-out")
         => StagesExhausted(events[e])
    /\ (events[e].status = "active" /\ EventPreSave(events[e], now).status = "sold-out")
         => StagesExhausted(events[e])

\* An event was created without stages and stored as sold-out.
C30_CreatedSoldOut ==
  /\ last = Answer("init", "ok")
  /\ \E e \in DOMAIN events :
       /\ events[e].preSaleStages = <<>>
       /\ events[e].status = "sold-out"


\* ============================================ concurrent request handlers
\* One event with one stage and a capped free pool; two handlers in
\* flight, each a reservation request, a direct reservation, a free
\* checkout or the delivery of an approved payment, their awaits
\* interleaved.
ConcurrentBodies ==
  {StageRequest(e, 0, 1) : e \in EventIds}
    \cup {FreeRequest(e, 1, "") : e \in EventIds}

InitConcurrent ==
  /\ now = 0
  /\ \E l \in Limits :
       events = [e \in EventIds |->
                   CreateEvent(3, 200, <<NewStage(100, l, 3)>>, TRUE, l, 0)]
  /\ reservations = <<>>
  /\ requests = NoRequests
  /\ last = Answer("init", "ok")

NextConcurrent ==
  \/ \E p \in Requesters, b \in ConcurrentBodies : RequestRead(p, b)
  \/ \E p \in Requesters : RequestSaveEvent(p)
  \/ \E p \in Requesters, c \in CodeChoices(reservations) :
       RequestSaveReservation(p, c)
  \/ \E p \in Requesters, e \in EventIds : DirectReservation(p, e, 1)
  \/ \E p \in Requesters, c \in CodeChoices(reservations) :
       DirectReservationSaveReservation(p, c)
  \/ \E p \in Requesters : DirectReservationSaveEvent(p)
  \/ \E p \in Requesters, b \in FreePreferences : CreatePreference(p, b)
  \/ \E p \in Requesters, c \in CodeChoices(reservations) :
       CreatePreferenceSaveReservation(p, c)
  \/ \E p \in Requesters : CreatePreferenceSaveEvent(p)
  \/ \E p \in Requesters : WebhookPayment(p, 1, "approved")
  \/ \E p \in Requesters, c \in CodeChoices(reservations) :
       WebhookSaveReservation(p, c)
  \/ \E p \in Requesters : WebhookFindEvent(p)
  \/ \E p \in Requesters : WebhookSaveEvent(p)

SpecConcurrent == InitConcurrent /\ [][NextConcurrent]_vars

\* C22: a handler that passed the limit check on the counter it loaded
\* saves that counter plus its tickets, whatever the stored counter has
\* become since; two handlers that both load before either saves then both
\* succeed, and the state C22_Oversold, in which the reservations of a
\* stage or pool hold more tickets than its limit, is reached.
C22_SavesFromLoadedCounter ==
  [][\A p \in Requesters :
       (/\ requests[p].pc = "checked"
        /\ last'.op = "postReservation:save"
        /\ RequestSaveEvent(p))
       => LET b == requests[p].body
              loaded == requests[p].loaded
          IN IF b.isFreeTicket
               THEN events'[b.eventId].freeTickets.ticketsClaimed
                      = loaded.freeTickets.ticketsClaimed + b.n
               ELSE events'[b.eventId].preSaleStages[b.preSaleStageIndex + 1].ticketsSold
                      = loaded.preSaleStages[b.preSaleStageIndex + 1].ticketsSold + b.n]_vars

\* Two reservation requests were answered Created, and their tickets
\* together exceed the limit of their stage, or the quantity of their
\* capped free pool.
C22_Oversold ==
  /\ last = Answer("postReservation", "Created")
  /\ Len(reservations) = 2
  /\ requests = NoRequests
  /\ \A i \in 1 .. 2 : reservations[i].paymentStatus = "pending"
  /\ \E e \in DOMAIN events :
       \/ TicketsHeld(reservations, 1, e, 0) > events[e].preSaleStages[1].ticketLimit
       \/ /\ events[e].freeTickets.quantity > 0
          /\ TicketsHeld(reservations, 1, e, undefined) > events[e].freeTickets.quantity

\* Two reservation requests for the last ticket of the stage were both
\* answered Created, and the stage counts one ticket.
LastTicketSoldTwice ==
  /\ last = Answer("postReservation", "Created")
  /\ requests = NoRequests
  /\ \E e \in DOMAIN events :
       /\ events[e].preSaleStages[1].ticketLimit = 1
       /\ events[e].preSaleStages[1].ticketsSold = 1
       /\ TicketsHeld(reservations, 1, e, 0) = 2

\* Two deliveries of the approved payment of order o1 have each created a
\* reservation.
TwoDeliveriesCreated ==
  /\ last.op = "webhook:approved"
  /\ last.res = "created"
  /\ requests = NoRequests
  /\ Len(reservations) = 2
  /\ \A i \in 1 .. 2 :
       /\ reservations[i].orderId = "o1"
       /\ reservations[i].paymentStatus = "approved"
       /\ reservations[i].paymentId = "1"

\* Two direct reservations were both answered ok and the pool counts one
\* of them.
DirectClaimLost ==
  /\ last = Answer("directReservation", "ok")
  /\ requests = NoRequests
  /\ Len(reservations) = 2
  /\ \A i \in 1 .. 2 : reservations[i].orderId = DirectOrderId
  /\ \E e \in DOMAIN events : events[e].freeTickets.ticketsClaimed = 1

\* Two free checkouts for the last ticket of the pool were both answered
\* with a reservation.
LastFreeTicketReservedTwice ==
  /\ last = Answer("createPreference", "freeReserved")
  /\ requests = NoRequests
  /\ Len(reservations) = 2
  /\ \A i \in 1 .. 2 :
       reservations[i].isFreeTicket /\ reservations[i].orderId = "o1"
  /\ \E e \in DOMAIN events :
       /\ events[e].freeTickets.quantity = 1
       /\ events[e].freeTickets.ticketsClaimed = 1

\* ================================================ counter, then reservation
\* One event with one stage and a capped free pool; reservation requests
\* for the stage or the pool, one after the other, some with a payment
\* method the schema does not know, some with a reservation code that is
\* taken.
RollbackBodies ==
  {b \in WellFormedBodies :
     /\ ~b.isPaid
     /\ b.orderId = NoOrder
     /\ b.totalAmount = 0
     /\ b.preSaleStageIndex = (IF b.isFreeTicket THEN undefined ELSE 0)}

InitRollback ==
  /\ now = 0
  /\ \E l \in Limits, q \in Limits :
       events = [e \in EventIds |->
                   CreateEvent(3, 200, <<NewStage(100, l, 3)>>, TRUE, q, 0)]
  /\ reservations = <<>>
  /\ requests = NoRequests
  /\ last = Answer("init", "ok")

NextRollback ==
  \/ Tick
  \/ \E p \in Sequential, b \in RollbackBodies : RequestRead(p, b)
  \/ \E p \in Sequential : RequestSaveEvent(p)
  \/ \E p \in Sequential, c \in CodeChoices(reservations) :
       RequestSaveReservation(p, c)

SpecRollback == InitRollback /\ [][NextRollback]_vars

\* C23: the counter is saved before the reservation: a handler reaches
\* the save of its reservation with the counter of its stage or pool
\* stored as the loaded value plus its tickets; and when that save fails
\* (validation error or duplicate code) the request is answered with the
\* error, no reservation is stored and the event, with the incremented
\* counter, is left as it is.
C23_CounterKeptOnFailure ==
  [][\A p \in Sequential, c \in CodeChoices(reservations) :
       (/\ requests[p].pc = "eventSaved"
        /\ RequestSaveReservation(p, c)
        /\ last'.res # "Created")
       => LET b == requests[p].body
              loaded == requests[p].loaded
          IN /\ last'.op = "postReservation"
             /\ last'.res \in {"ValidationError", "DuplicateKey"}
             /\ reservations' = reservations
             /\ IF b.isFreeTicket
                  THEN /\ events'[b.eventId].freeTickets.ticketsClaimed
                            = loaded.freeTickets.ticketsClaimed + b.n
                       /\ Counters(events')[b.eventId].sold
                            = Counters(events)[b.eventId].sold
                  ELSE /\ events'[b.eventId].preSaleStages[1].ticketsSold
                            = loaded.preSaleStages[1].ticketsSold + b.n
                       /\ events'[b.eventId].freeTickets = loaded.freeTickets]_vars

\* A request failed at the save of its reservation and the stage counts
\* more tickets than the stored reservations hold.
C23_CounterAhead ==
  /\ last.op = "postReservation"
  /\ last.res \in {"ValidationError", "DuplicateKey"}
  /\ requests = NoRequests
  /\ \E e \in DOMAIN events :
       events[e].preSaleStages[1].ticketsSold > TicketsHeld(reservations, 1, e, 0)

\* ===================================================== approved redelivery
\* One event with one stage; a buyer reserves a ticket of the stage under
\* order o1, the gateway delivers the approved payment of that order any
\* number of times, the admin switches the stage on and off and the clock
\* advances past the stage's end; one handler is in flight at a time.
RedeliveryRequestBodies == {OrderRequest(e, 0, 1) : e \in EventIds}

InitRedelivery ==
  /\ now = 0
  /\ \E l \in Limits, d \in EndDates :
       events = [e \in EventIds |->
                   CreateEvent(3, 200, <<NewStage(100, l, d)>>, FALSE, 0, 0)]
  /\ reservations = <<>>
  /\ requests = NoRequests
  /\ last = Answer("init", "ok")

NextRedelivery ==
  \/ Tick
  \/ \E p \in Sequential, b \in RedeliveryRequestBodies : RequestRead(p, b)
  \/ \E p \in Sequential : RequestSaveEvent(p)
  \/ \E p \in Sequential, c \in CodeChoices(reservations) :
       RequestSaveReservation(p, c)
  \/ \E p \in Sequential, id \in {1, 2} : WebhookPayment(p, id, "approved")
  \/ \E p \in Sequential, c \in CodeChoices(reservations) :
       WebhookSaveReservation(p, c)
  \/ \E p \in Sequential : WebhookFindEvent(p)
  \/ \E p \in Sequential : WebhookSaveEvent(p)
  \/ \E p \in Sequential, e \in EventIds, u \in StageSwitches : EditStage(p, e, 0, u)
  \/ \E p \in Sequential : EditStageSave(p)

SpecRedelivery == InitRedelivery /\ [][NextRedelivery]_vars

\* The stage that the metadata of payment id names exists in the store.
NamesStoredStage(id) ==
  /\ PaymentMetadata(id).event_id \in DOMAIN events
  /\ PaymentMetadata(id).pre_sale_stage # undefined
  /\ PaymentMetadata(id).pre_sale_stage + 1
       \in 1 .. Len(events[PaymentMetadata(id).event_id].preSaleStages)

\* C24: every processing of an approved notification that reaches the
\* event update, and whose metadata names an existing stage, ends with the
\* metadata's tickets added to that stage's ticketsSold, whatever the
\* stage's limit and isActive are, so that k deliveries add k times the
\* tickets.
C24_EveryDeliveryAdds ==
  [][\A p \in Sequential :
       (/\ requests[p].pc \in {"webhook:findEvent", "webhook:saveEvent"}
        /\ last'.op = "webhook:approved"
        /\ NamesStoredStage(requests[p].payment.id)
        /\ (WebhookFindEvent(p) \/ WebhookSaveEvent(p)))
       => LET md == requests[p].payment.metadata
          IN events'[md.event_id].preSaleStages[md.pre_sale_stage + 1].ticketsSold
               = events[md.event_id].preSaleStages[md.pre_sale_stage + 1].ticketsSold
                   + md.tickets]_vars

\* An approved payment naming the stored stage has been processed to its
\* end, its reservation is stored as approved, and the stage's ticketsSold
\* is still 0: event.save() refused the document because the stage's
\* endDate had passed, and the handler answered 200.
C24_DeliveryNotCounted ==
  /\ last.op = "webhook:approved"
  /\ last.res = "created"
  /\ requests = NoRequests
  /\ Len(reservations) = 1
  /\ reservations[1].paymentStatus = "approved"
  /\ \E id \in {1, 2} :
       /\ reservations[1].paymentId = PaymentIdString(id)
       /\ NamesStoredStage(id)
       /\ LET md == PaymentMetadata(id)
              stage == events[md.event_id].preSaleStages[md.pre_sale_stage + 1]
          IN /\ stage.ticketsSold = 0
             /\ stage.endDate <= now

\* Redeliveries of the approved payment have driven the stage's counter
\* beyond its limit while one reservation holds one ticket.
C24_RedeliveredBeyondLimit ==
  /\ last.op = "webhook:approved"
  /\ last.res = "updated"
  /\ Len(reservations) = 1
  /\ \E e \in DOMAIN events :
       events[e].preSaleStages[1].ticketsSold > events[e].preSaleStages[1].ticketLimit

\* C27: whenever no handler is in flight, the ticketsSold of every stage
\* equals the tickets of the stored reservations issued against that
\* stage; a purchase recorded by POST /reservations and then confirmed by
\* the approved payment of its order is counted once.
C27_SoldEqualsReserved ==
  requests = NoRequests
  => \A e \in DOMAIN events :
       \A k \in 1 .. Len(events[e].preSaleStages) :
         events[e].preSaleStages[k].ticketsSold = TicketsHeld(reservations, 1, e, k - 1)

\* The one purchase of one ticket, reserved and then approved, is counted
\* twice by its stage.
C27_CountedTwice ==
  /\ last.op = "webhook:approved"
  /\ last.res = "updated"
  /\ Len(reservations) = 1
  /\ reservations[1].paymentStatus = "approved"
  /\ reservations[1].preSaleStageIndex = 0
  /\ reservations[1].totalTickets = 1
  /\ events[reservations[1].eventId].preSaleStages[1].ticketsSold = 2

\* ======================================================= contact backfill
\* One pending reservation of order o1 with its ticket holders; the
\* gateway delivers the approved payment of the order with the payer and
\* the contact metadata it holds, while a second payment of the order,
\* whose payer the gateway does not know, is delivered and the buyer
\* changes the contact data of the order by either route; one await at a
\* time.
NoPayer == [first_name |-> "", last_name |-> "", email |-> ""]

InitContact ==
  /\ now = 0
  /\ events = [e \in EventIds |->
                 CreateEvent(3, 200, <<NewStage(100, 2, 3)>>, FALSE, 0, 0)]
  /\ \E tk \in TicketLists :
       reservations =
         <<ReservationPreSave(ReservationData(OrderRequest("e1", 0, Len(tk))),
                              FALSE, 1, 0)
             @@ [tickets |-> tk]>>
  /\ requests = NoRequests
  /\ last = Answer("init", "ok")

NextContact ==
  \/ \E p \in Gateway, payer \in Payers, metadata \in ContactMetadata :
       WebhookApprovedContact(p, 1, payer, metadata)
  \/ \E p \in Shoppers, metadata \in ContactMetadata :
       WebhookApprovedContact(p, 2, NoPayer, metadata)
  \/ \E p \in Requesters, c \in CodeChoices(reservations) :
       WebhookSaveReservation(p, c)
  \/ \E p \in Requesters : WebhookFindEvent(p)
  \/ \E p \in Requesters : WebhookSaveEvent(p)
  \/ \E p \in Shoppers, o \in OrderIds \cup {NoOrder}, b \in OrderContactBodies :
       PatchOrderContact(p, o, b)
  \/ \E p \in Shoppers : PatchOrderContactSave(p)
  \/ \E p \in Shoppers, o \in OrderIds \cup {NoOrder},
        b \in ReservationContactBodies :
       PatchReservationContact(p, o, b)
  \/ \E p \in Shoppers : PatchReservationContactSave(p)

SpecContact == InitContact /\ [][NextContact]_vars

\* C25: an approved notification that updates an existing reservation
\* never changes a ticket holder's nombre, apellido or email that is not
\* empty.
C25_BackfillOnlyEmpty ==
  [][\A p \in Requesters, c \in CodeChoices(reservations) :
       (/\ requests[p].pc = "webhook:saveReservation"
        /\ requests[p].payment.status = "approved"
        /\ requests[p].i # 0
        /\ WebhookSaveReservation(p, c))
       => \A j \in 1 .. Len(reservations[requests[p].i].tickets) :
            \A f \in {"nombre", "apellido", "email"} :
              reservations[requests[p].i].tickets[j][f] # ""
                => reservations'[requests[p].i].tickets[j][f]
                     = reservations[requests[p].i].tickets[j][f]]_vars

\* An approved payment has replaced the name of a ticket holder.
C25_NameReplaced ==
  /\ last.op = "webhook:approved"
  /\ last.res = "updated"
  /\ \E i \in 1 .. Len(reservations) :
       /\ reservations[i].paymentStatus = "approved"
       /\ \E j \in 1 .. Len(reservations[i].tickets) :
            reservations[i].tickets[j].nombre \in {"Pau", "Cat", "Cliente"}

\* Two deliveries loaded the reservation and both filled in the contact
\* data; the first saved, the save of the second was refused under the
\* version key and its payment is not recorded.
SecondBackfillRefused ==
  /\ last = WebhookAnswer(GatewayPayment(2, "approved"), "threw")
  /\ reservations[1].v = 1
  /\ reservations[1].paymentId = PaymentIdString(1)
  /\ reservations[1].tickets[1].nombre = "Pau"

\* The buyer has changed the contact data of the order by the route of
\* the reservations: one name of two words is stored as nombre and
\* apellido.
ContactChanged ==
  /\ last = Answer("patchOrderContact", "ok")
  /\ reservations[1].tickets[1]
       = [nombre |-> "Eva", apellido |-> "Luna", email |-> "eva@x"]

\* A name of one word leaves the apellido empty and the save is refused.
ContactWithoutSurnameRefused ==
  /\ last = Answer("patchOrderContact", "ValidationError")

\* ================================================ sweeper among requests
\* A whole run of updateEventStatuses() at time t with no other write in
\* between: the loop over the found events from position j on.
RECURSIVE SweepFrom(_, _, _, _)
SweepFrom(evs, found, j, t) ==
  LET rest == SweepRest([j |-> j, found |-> found])
  IN IF rest = {} THEN evs
     ELSE LET k == CHOOSE x \in rest : \A y \in rest : x <= y
              e == EventOrder[k]
              sv == EventSaveLoaded(evs, e, found[e],
                                    DeactivateExpired(found[e], t), t)
          IN IF sv.ok THEN SweepFrom(sv.events, found, k + 1, t) ELSE sv.events

SweepRun(evs, t) ==
  LET marked == MarkCompleted(evs, t)
  IN SweepFrom(marked,
               [e \in {x \in DOMAIN marked : NeedsDeactivation(marked[x], t)}
                  |-> marked[e]],
               1, t)

\* One event that is over at time 1, with one stage and a capped free
\* pool; two processes, each a reservation handler, the one also the
\* deliveries of an approved payment, the other also the runs of the
\* sweeper.
InterleavedBodies ==
  {StageRequest(e, 0, 1) : e \in EventIds} \cup {FreeRequest(e, 1, "") : e \in EventIds}

InitInterleaved ==
  /\ now = 0
  /\ \E d \in EndDates :
       events = [e \in EventIds |->
                   CreateEvent(1, 200, <<NewStage(100, 2, d)>>, TRUE, 2, 0)]
  /\ reservations = <<>>
  /\ requests = NoRequests
  /\ last = Answer("init", "ok")

NextInterleaved ==
  \/ Tick
  \/ \E p \in Requesters, b \in InterleavedBodies : RequestRead(p, b)
  \/ \E p \in Requesters : RequestSaveEvent(p)
  \/ \E p \in Requesters, c \in CodeChoices(reservations) :
       RequestSaveReservation(p, c)
  \/ \E p \in Gateway : WebhookPayment(p, 1, "approved")
  \/ \E p \in Gateway, c \in CodeChoices(reservations) :
       WebhookSaveReservation(p, c)
  \/ \E p \in Gateway : WebhookFindEvent(p)
  \/ \E p \in Gateway : WebhookSaveEvent(p)
  \/ \E p \in Scheduler : SweepMark(p)
  \/ \E p \in Scheduler : SweepFind(p)
  \/ \E p \in Scheduler : SweepSave(p)

SpecInterleaved == InitInterleaved /\ [][NextInterleaved]_vars

\* The event save of a reservation handler or of an approved payment that
\* loaded the event as active, taken after the sweeper's updateMany has
\* completed the event, leaves the event completed and stores the counters
\* of the handler's document.
C26_IncrementKept ==
  [][\A p \in Requesters :
       (/\ \/ requests[p].pc = "checked" /\ RequestSaveEvent(p)
           \/ requests[p].pc = "webhook:saveEvent" /\ WebhookSaveEvent(p)
        /\ requests[p].loaded.status = "active"
        /\ LET e == IF requests[p].pc = "checked"
                      THEN requests[p].body.eventId ELSE requests[p].eventId
           IN e \in DOMAIN events /\ events[e].status = "completed")
       => LET r == requests[p]
              e == IF r.pc = "checked" THEN r.body.eventId ELSE r.eventId
              doc == IF r.pc = "checked" THEN Incremented(r.loaded, r.body) ELSE r.doc
          IN /\ events'[e].status = "completed"
             /\ \A k \in 1 .. Len(doc.preSaleStages) :
                  doc.preSaleStages[k].ticketsSold # r.loaded.preSaleStages[k].ticketsSold
                  => events'[e].preSaleStages[k].ticketsSold
                       = doc.preSaleStages[k].ticketsSold
             /\ doc.freeTickets.ticketsClaimed # r.loaded.freeTickets.ticketsClaimed
                => events'[e].freeTickets.ticketsClaimed
                     = doc.freeTickets.ticketsClaimed]_vars

\* The sweeper's save of an event it found, taken while a reservation
\* handler or an approved payment is in flight, leaves every stage of the
\* event that had expired at the start of the run inactive and changes no
\* consumption counter.
C26_DeactivationKept ==
  [][\A p \in Scheduler :
       (/\ requests[p].pc = "found"
        /\ SweepRest(requests[p]) # {}
        /\ \E q \in Requesters \ {p} : requests[q] # Idle
        /\ SweepSave(p))
       => LET r == requests[p]
              j == CHOOSE x \in SweepRest(r) : \A y \in SweepRest(r) : x <= y
              e == EventOrder[j]
              doc == DeactivateExpired(r.found[e], r.at)
          IN /\ Counters(events') = Counters(events)
             /\ \A i \in 1 .. Len(doc.preSaleStages) :
                  (r.found[e].preSaleStages[i].isActive
                   /\ ~doc.preSaleStages[i].isActive)
                  => ~events'[e].preSaleStages[i].isActive]_vars

\* A second run of the sweeper on the state a first run left, with no
\* other write in between, changes nothing.
C26_SweepTwiceIsOnce ==
  [](SweepRun(SweepRun(events, now), now) = SweepRun(events, now))

\* C26: in every interleaving of a sweeper run with a reservation handler
\* or an approved payment on the same event, the state after the later of
\* their writes holds both effects, the handler's counter increment and the
\* sweeper's status change and stage deactivation; and running the sweeper
\* twice with no change in between gives the state of running it once.
C26_BothEffectsKept ==
  /\ C26_IncrementKept
  /\ C26_DeactivationKept
  /\ C26_SweepTwiceIsOnce

\* A sweeper run has completed the event and is still in flight; the
\* reservation handler that ran alongside it was refused at its save of
\* the event, and the store holds no counter increment and no reservation.
C26_IncrementLostToSweep ==
  /\ last = Answer("postReservation", "EventValidationError")
  /\ \E q \in Scheduler : requests[q].pc \in {"marked", "found"}
  /\ reservations = <<>>
  /\ \E e \in DOMAIN events :
       /\ events[e].status = "completed"
       /\ events[e].preSaleStages[1].ticketsSold = 0
       /\ events[e].freeTickets.ticketsClaimed = 0

\* A sweeper run has ended on a refused save while a handler was in
\* flight, and the stage whose endDate has passed is still active.
C26_DeactivationLostInFlight ==
  /\ last = Answer("sweep", "failed")
  /\ \E q \in Requesters : requests[q] # Idle
  /\ \E e \in DOMAIN events :
       /\ events[e].preSaleStages[1].endDate < now
       /\ events[e].preSaleStages[1].isActive
\* ========================================================= event updates
\* One event with one stage on sale; buyers reserve and the gateway
\* delivers approved payments while the admin replaces the stage list, by
\* an empty one too, edits the stage and deletes the event, one await at a
\* time.
ListUpdateBodies ==
  {b \in EventUpdateBodies :
     /\ ~b.hasFreeTickets
     /\ b.hasStages
     /\ b.date = undefined /\ b.basePrice = undefined}

InitUpdates ==
  /\ now = 0
  /\ events = [e \in EventIds |->
                 CreateEvent(3, 200, <<NewStage(100, 2, 3)>>, FALSE, 0, 0)]
  /\ reservations = <<>>
  /\ requests = NoRequests
  /\ last = Answer("init", "ok")

NextUpdates ==
  \/ Tick
  \/ \E p \in Buyers, b \in StageRequestBodies : RequestRead(p, b)
  \/ \E p \in Buyers : RequestSaveEvent(p)
  \/ \E p \in Buyers, c \in CodeChoices(reservations) : RequestSaveReservation(p, c)
  \/ \E p \in Buyers : WebhookPayment(p, 1, "approved")
  \/ \E p \in Buyers, c \in CodeChoices(reservations) : WebhookSaveReservation(p, c)
  \/ \E p \in Buyers : WebhookFindEvent(p)
  \/ \E p \in Buyers : WebhookSaveEvent(p)
  \/ \E p \in Admins, e \in EventIds, u \in StageEdits : EditStage(p, e, 0, u)
  \/ \E p \in Admins : EditStageSave(p)
  \/ \E p \in Admins, e \in EventIds, b \in ListUpdateBodies : UpdateEvent(p, e, b)
  \/ \E p \in Admins : UpdateEventWrite(p)
  \/ \E e \in EventIds : DeleteEvent(e)

SpecUpdates == InitUpdates /\ [][NextUpdates]_vars

\* C29: no operation lowers a consumption counter: the ticketsSold of every
\* stage that stays in the event and the ticketsClaimed of every free pool
\* are after each step at least what they were before.
C29_CountersNeverDecrease ==
  [][\A e \in DOMAIN events \cap DOMAIN events' :
       /\ events'[e].freeTickets.ticketsClaimed >= events[e].freeTickets.ticketsClaimed
       /\ \A k \in 1 .. Len(events[e].preSaleStages) :
            k <= Len(events'[e].preSaleStages)
              => events'[e].preSaleStages[k].ticketsSold
                   >= events[e].preSaleStages[k].ticketsSold]_vars

\* An event update has left the stage with fewer tickets sold than the
\* stored reservations hold against it.
C29_CounterReset ==
  /\ last.op = "updateEvent" /\ last.res = "ok"
  /\ \E e \in DOMAIN events :
       /\ Len(events[e].preSaleStages) >= 1
       /\ events[e].preSaleStages[1].ticketsSold = 0
       /\ TicketsHeld(reservations, 1, e, 0) > 0

\* A reservation handler has saved its increment after an update emptied
\* the stage list: the store holds a stage that has a counter and no
\* name, price, limit or end date.
StageWithoutLimitStored ==
  /\ last.op = "postReservation:save"
  /\ \E e \in DOMAIN events :
       /\ Len(events[e].preSaleStages) = 1
       /\ events[e].preSaleStages[1].ticketsSold > 0
       /\ ~StageHas(events[e].preSaleStages[1], "ticketLimit")

\* A handler has saved an event that was deleted after the handler loaded
\* it: the save is refused and the store stays without the event.
SaveOfDeletedEventRefused ==
  /\ last = Answer("editStage", "VersionError")
  /\ events = <<>>

\* ============================================================= allocation
\* One event with two stages; POST /reservations and buyPreSaleTickets
\* allocate tickets of the stages, the admin switches the first stage on
\* and off and the clock advances.  The requests run one after the other.
AllocationBodies ==
  {b \in ReservationBodies :
     /\ ~b.isPaid
     /\ b.orderId = NoOrder
     /\ ~b.isFreeTicket
     /\ b.paymentMethod = ""
     /\ b.totalAmount = 0
     /\ (b.eventId = MissingEvent \/ b.n \notin TicketCounts)
          <=> b.preSaleStageIndex = undefined}

InitAllocation ==
  /\ now = 0
  /\ \E l \in Limits, d \in EndDates :
       events = [e \in EventIds |->
                   CreateEvent(3, 200, <<NewStage(100, l, d), NewStage(150, 2, 3)>>,
                               FALSE, 0, 0)]
  /\ reservations = <<>>
  /\ requests = NoRequests
  /\ last = Answer("init", "ok")

NextAllocation ==
  \/ Tick
  \/ \E p \in Sequential, b \in AllocationBodies : RequestRead(p, b)
  \/ \E p \in Sequential : RequestSaveEvent(p)
  \/ \E p \in Sequential, c \in CodeChoices(reservations) : RequestSaveReservation(p, c)
  \/ \E p \in Sequential, e \in EventIds, k \in StageIndexInputs \ {undefined},
        n \in TicketCounts :
       BuyPreSaleTickets(p, e, k, n)
  \/ \E p \in Sequential : MethodSave(p)
  \/ \E p \in Sequential, e \in EventIds, u \in StageSwitches : EditStage(p, e, 0, u)
  \/ \E p \in Sequential : EditStageSave(p)

SpecAllocation == InitAllocation /\ [][NextAllocation]_vars

\* C3: allocations of n tickets on an active, unexpired stage, by POST
\* /reservations or by buyPreSaleTickets, run one after the other.  With
\* n > ticketLimit - ticketsSold the allocation fails with the sold-out
\* error and changes nothing; otherwise it passes the check.  The save of
\* the event moves that stage's counter by n or not at all, and an
\* allocation that succeeds leaves the counter exactly n above the value it
\* found: from 0, ticketsSold is the sum of the successful allocations.
C3_SequentialAllocation ==
  [][\A p \in Sequential, e \in EventIds, k \in 0 .. MaxStages, n \in TicketCounts :
       LET stages == events[e].preSaleStages
           open == /\ k < Len(stages)
                   /\ stages[k + 1].isActive
                   /\ stages[k + 1].endDate >= now
           starts ==
             \/ /\ last'.op \in {"postReservation", "postReservation:load"}
                /\ RequestRead(p, StageRequest(e, k, n))
             \/ /\ last'.op \in {"buyPreSaleTickets", "buyPreSaleTickets:load"}
                /\ BuyPreSaleTickets(p, e, k, n)
           saves ==
             \/ /\ requests[p].pc = "checked"
                /\ requests[p].body = StageRequest(e, k, n)
                /\ RequestSaveEvent(p)
             \/ /\ requests[p].pc = "method:save"
                /\ requests[p].op = "buyPreSaleTickets"
                /\ requests[p].doc =
                     [requests[p].loaded EXCEPT !.preSaleStages[k + 1].ticketsSold = @ + n]
                /\ MethodSave(p)
           ends ==
             /\ requests[p].pc = "eventSaved"
             /\ requests[p].body = StageRequest(e, k, n)
             /\ \E c \in CodeChoices(reservations) : RequestSaveReservation(p, c)
       IN /\ (open /\ starts)
             => IF n > stages[k + 1].ticketLimit - stages[k + 1].ticketsSold
                  THEN /\ last'.res = "StageSoldOut"
                       /\ events' = events
                       /\ reservations' = reservations
                       /\ requests'[p] = Idle
                  ELSE /\ last'.res = "pass"
                       /\ requests'[p].loaded = events[e]
          /\ saves
             => /\ last'.res = "saved"
                     => events'[e].preSaleStages[k + 1].ticketsSold
                          = stages[k + 1].ticketsSold + n
                /\ Counters(events') \in
                     {Counters(events),
                      [Counters(events) EXCEPT ![e].sold[k + 1] = @ + n]}
          /\ ends
             => /\ events' = events
                /\ last'.res = "Created"
                     => events'[e].preSaleStages[k + 1].ticketsSold
                          = requests[p].loaded.preSaleStages[k + 1].ticketsSold + n]_vars

\* Two allocations of one ticket filled a stage of two, and a third
\* request was refused as sold out.
C3_StageFilled ==
  /\ last = Answer("postReservation", "StageSoldOut")
  /\ Len(reservations) = 2
  /\ \A i \in 1 .. 2 :
       reservations[i].preSaleStageIndex = 0 /\ reservations[i].totalTickets = 1
  /\ events["e1"].preSaleStages[1].ticketLimit = 2
  /\ events["e1"].preSaleStages[1].ticketsSold = 2
  /\ events["e1"].preSaleStages[1].isActive
  /\ events["e1"].preSaleStages[1].endDate >= now

\* C5: POST /reservations with a preSaleStageIndex fails with the
\* invalid-stage error for an index outside 0 .. len - 1, with the
\* stage-inactive error for a stage that is not active or whose endDate has
\* passed, with the stage-sold-out error when ticketsSold + requested >
\* ticketLimit; each time no reservation is created and no counter moves.
C5_StageRefusals ==
  [][\A p \in Sequential, b \in AllocationBodies :
       LET stages == events[b.eventId].preSaleStages
           k == b.preSaleStageIndex
           inRange == 0 <= k /\ k < Len(stages)
           closed == ~stages[k + 1].isActive \/ stages[k + 1].endDate < now
           refused == /\ reservations' = reservations
                      /\ Counters(events') = Counters(events)
                      /\ requests'[p] = Idle
       IN (/\ last'.op \in {"postReservation", "postReservation:load"}
           /\ b.eventId \in EventIds
           /\ b.n \in TicketCounts
           /\ k # undefined
           /\ RequestRead(p, b))
          => /\ ~inRange => last'.res = "InvalidStage" /\ refused
             /\ inRange /\ closed
                  => last'.res \in {"StageInactive", "StageExpired"} /\ refused
             /\ inRange /\ ~closed
                  /\ stages[k + 1].ticketsSold + b.n > stages[k + 1].ticketLimit
                  => last'.res = "StageSoldOut" /\ refused]_vars

\* A request for the stage index -1 ended with the TypeError.
C5_NegativeIndexThrows ==
  /\ last = Answer("postReservation", "TypeError")
  /\ reservations = <<>>

\* ==================================================== free-ticket inventory
\* One event with at most one stage and a free-ticket pool; free
\* reservations by the three routes and by claimFreeTicket, and the admin's
\* edits of the pool.  The requests run one after the other.
FreeRequestBodies ==
  {b \in WellFormedBodies :
     /\ b.isFreeTicket
     /\ b.preSaleStageIndex = undefined
     /\ ~b.isPaid
     /\ b.totalAmount = 0
     /\ b.orderId = NoOrder}

FreePreferenceBodies ==
  {b \in PreferenceBodies :
     /\ b.is_free_ticket
     /\ b.unit_price = 0
     /\ b.gateway = "ok"
     /\ b.pre_sale_stage \in {undefined, 0, 1}
     /\ b.eventId = MissingEvent => b.tickets = 1 /\ b.pre_sale_stage = undefined}

InitFree ==
  /\ now = 0
  /\ \E en \in BOOLEAN, q \in Quantities, st \in {<<>>, <<NewStage(100, 2, 3)>>} :
       events = [e \in EventIds |-> CreateEvent(3, 200, st, en, q, 0)]
  /\ reservations = <<>>
  /\ requests = NoRequests
  /\ last = Answer("init", "ok")

NextFree ==
  \/ \E p \in Sequential, b \in FreeRequestBodies : RequestRead(p, b)
  \/ \E p \in Sequential : RequestSaveEvent(p)
  \/ \E p \in Sequential, c \in CodeChoices(reservations) : RequestSaveReservation(p, c)
  \/ \E p \in Sequential, e \in EventIds, n \in TicketCounts : ClaimFreeTicket(p, e, n)
  \/ \E p \in Sequential : MethodSave(p)
  \/ \E p \in Sequential, e \in EventIds \cup {MissingEvent}, n \in TicketCounts :
       DirectReservation(p, e, n)
  \/ \E p \in Sequential, c \in CodeChoices(reservations) :
       DirectReservationSaveReservation(p, c)
  \/ \E p \in Sequential : DirectReservationSaveEvent(p)
  \/ \E p \in Sequential, b \in FreePreferenceBodies : CreatePreference(p, b)
  \/ \E p \in Sequential, c \in CodeChoices(reservations) :
       CreatePreferenceSaveReservation(p, c)
  \/ \E p \in Sequential : CreatePreferenceSaveEvent(p)
  \/ \E p \in Sequential, e \in EventIds, en \in OptionalBool,
        q \in {undefined} \cup Quantities :
       PatchFreeTickets(p, e, en, q)
  \/ \E p \in Sequential : PatchFreeTicketsSave(p)

SpecFree == InitFree /\ [][NextFree]_vars

\* C2: every free pool has ticketsClaimed >= 0 and, when quantity > 0,
\* ticketsClaimed <= quantity, whatever free reservations and
\* configuration edits came before.
C2_ClaimedWithinQuantity ==
  \A e \in DOMAIN events :
    LET ft == events[e].freeTickets
    IN /\ ft.ticketsClaimed >= 0
       /\ ft.quantity > 0 => ft.ticketsClaimed <= ft.quantity

\* A direct reservation has taken more tickets than the capped pool holds.
C2_ClaimedBeyondQuantity ==
  /\ last = Answer("directReservation", "ok")
  /\ \E e \in DOMAIN events :
       /\ events[e].freeTickets.quantity > 0
       /\ events[e].freeTickets.ticketsClaimed > events[e].freeTickets.quantity

\* C4 as stated: free claims of n tickets on an enabled pool with quantity
\* Q > 0, by POST /reservations, by create-preference or by
\* claimFreeTicket, run one after the other.  With ticketsClaimed + n <= Q
\* the claim passes the check, and its save moves the counter by n or not
\* at all and by n when it succeeds; with more the claim fails with the
\* free-tickets-sold-out error and leaves everything unchanged.
C4_FreeClaimsAnyEvent ==
  [][\A p \in Sequential, e \in EventIds, n \in TicketCounts :
       LET ft == events[e].freeTickets
           capped == ft.enabled /\ ft.quantity > 0
           starts ==
             \/ /\ last'.op \in {"postReservation", "postReservation:load"}
                /\ \E pm \in {"", "card"} : RequestRead(p, FreeRequest(e, n, pm))
             \/ /\ last'.op \in {"createPreference", "createPreference:load"}
                /\ CreatePreference(p, FreePreference(e, n))
             \/ /\ last'.op \in {"claimFreeTicket", "claimFreeTicket:load"}
                /\ ClaimFreeTicket(p, e, n)
           saves ==
             \/ /\ requests[p].pc = "checked"
                /\ \E pm \in {"", "card"} : requests[p].body = FreeRequest(e, n, pm)
                /\ RequestSaveEvent(p)
             \/ /\ requests[p].pc = "free:saveEvent"
                /\ requests[p].body = FreePreference(e, n)
                /\ CreatePreferenceSaveEvent(p)
             \/ /\ requests[p].pc = "method:save"
                /\ requests[p].op = "claimFreeTicket"
                /\ requests[p].doc =
                     [requests[p].loaded EXCEPT !.freeTickets.ticketsClaimed = @ + n]
                /\ MethodSave(p)
       IN /\ (capped /\ starts)
             => IF ft.ticketsClaimed + n <= ft.quantity
                  THEN /\ last'.res \in {"pass", "free"}
                       /\ requests'[p].loaded = events[e]
                  ELSE /\ last'.res \in {"FreeTicketsSoldOut", "FREE_TICKETS_SOLD_OUT"}
                       /\ events' = events
                       /\ reservations' = reservations
                       /\ requests'[p] = Idle
          /\ (capped /\ saves)
             => /\ last'.res \in {"saved", "freeReserved"}
                     => events'[e].freeTickets.ticketsClaimed = ft.ticketsClaimed + n
                /\ events'[e].freeTickets.ticketsClaimed
                     \in {ft.ticketsClaimed, ft.ticketsClaimed + n}]_vars

\* C4, amended: the same, with create-preference taken on an event whose
\* status is active; on any other event create-preference answers
\* EVENT_NOT_ACTIVE before it looks at the pool.
C4_FreeClaimsActiveEvent ==
  [][\A p \in Sequential, e \in EventIds, n \in TicketCounts :
       LET ft == events[e].freeTickets
           capped == ft.enabled /\ ft.quantity > 0
           starts ==
             \/ /\ last'.op \in {"postReservation", "postReservation:load"}
                /\ \E pm \in {"", "card"} : RequestRead(p, FreeRequest(e, n, pm))
             \/ /\ last'.op \in {"createPreference", "createPreference:load"}
                /\ events[e].status = "active"
                /\ CreatePreference(p, FreePreference(e, n))
             \/ /\ last'.op \in {"claimFreeTicket", "claimFreeTicket:load"}
                /\ ClaimFreeTicket(p, e, n)
           saves ==
             \/ /\ requests[p].pc = "checked"
                /\ \E pm \in {"", "card"} : requests[p].body = FreeRequest(e, n, pm)
                /\ RequestSaveEvent(p)
             \/ /\ requests[p].pc = "free:saveEvent"
                /\ requests[p].body = FreePreference(e, n)
                /\ CreatePreferenceSaveEvent(p)
             \/ /\ requests[p].pc = "method:save"
                /\ requests[p].op = "claimFreeTicket"
                /\ requests[p].doc =
                     [requests[p].loaded EXCEPT !.freeTickets.ticketsClaimed = @ + n]
                /\ MethodSave(p)
       IN /\ (capped /\ starts)
             => IF ft.ticketsClaimed + n <= ft.quantity
                  THEN /\ last'.res \in {"pass", "free"}
                       /\ requests'[p].loaded = events[e]
                  ELSE /\ last'.res \in {"FreeTicketsSoldOut", "FREE_TICKETS_SOLD_OUT"}
                       /\ events' = events
                       /\ reservations' = reservations
                       /\ requests'[p] = Idle
          /\ (capped /\ saves)
             => /\ last'.res \in {"saved", "freeReserved"}
                     => events'[e].freeTickets.ticketsClaimed = ft.ticketsClaimed + n
                /\ events'[e].freeTickets.ticketsClaimed
                     \in {ft.ticketsClaimed, ft.ticketsClaimed + n}]_vars

\* Two claims of one ticket emptied a pool of two on an active event, and
\* create-preference refused the next claim as sold out.
C4_PoolExhausted ==
  /\ last = Answer("createPreference", "FREE_TICKETS_SOLD_OUT")
  /\ events["e1"].status = "active"
  /\ events["e1"].freeTickets.enabled
  /\ events["e1"].freeTickets.quantity = 2
  /\ events["e1"].freeTickets.ticketsClaimed = 2
  /\ Len(reservations) = 2
  /\ \A i \in 1 .. 2 :
       reservations[i].isFreeTicket /\ reservations[i].totalTickets = 1

\* C6: a free-ticket operation on an event whose freeTickets.enabled is
\* false (for the two gateway routes an active event, since they refuse any
\* other event first) fails with the free-tickets-disabled error, creates
\* no reservation and leaves ticketsClaimed unchanged.
C6_DisabledPoolRefuses ==
  [][\A p \in Sequential, e \in EventIds, n \in TicketCounts :
       LET operation ==
             \/ \E pm \in {"", "card"} : RequestRead(p, FreeRequest(e, n, pm))
             \/ /\ events[e].status = "active"
                /\ \/ CreatePreference(p, FreePreference(e, n))
                   \/ DirectReservation(p, e, n)
       IN (/\ last'.op \in {"postReservation", "postReservation:load",
                            "createPreference", "createPreference:load",
                            "directReservation", "directReservation:load"}
           /\ ~events[e].freeTickets.enabled
           /\ operation)
          => /\ last'.res \in {"FreeTicketsDisabled", "FREE_TICKETS_DISABLED"}
             /\ requests'[p] = Idle
             /\ reservations' = reservations
             /\ events' = events]_vars

\* A direct reservation was stored for an event whose pool is disabled.
C6_ReservedWhileDisabled ==
  /\ last = Answer("directReservation", "ok")
  /\ \E i \in 1 .. Len(reservations) :
       /\ reservations[i].orderId = DirectOrderId
       /\ reservations[i].isFreeTicket
       /\ ~events[reservations[i].eventId].freeTickets.enabled

\* ======================================================== payment webhook
\* One event with one stage; reservations created by POST /reservations
\* for the order "o1" while the gateway delivers the notifications of the
\* payments one after the other.
PaidRequestBodies ==
  {[OrderRequest(e, 0, 1) EXCEPT !.totalAmount = 500] : e \in EventIds}

InitPayments ==
  /\ now = 1
  /\ events = [e \in EventIds |->
                 CreateEvent(3, 200, <<NewStage(100, 2, 3)>>, FALSE, 0, 0)]
  /\ reservations = <<>>
  /\ requests = NoRequests
  /\ last = Answer("init", "ok")

NextPayments ==
  \/ Tick
  \/ \E p \in Shoppers, b \in PaidRequestBodies : RequestRead(p, b)
  \/ \E p \in Shoppers : RequestSaveEvent(p)
  \/ \E p \in Shoppers, c \in CodeChoices(reservations) : RequestSaveReservation(p, c)
  \/ \E p \in Gateway, id \in {1, 2}, st \in GatewayStatuses :
       WebhookPayment(p, id, st)
  \/ \E p \in Gateway, c \in CodeChoices(reservations) : WebhookSaveReservation(p, c)
  \/ \E p \in Gateway : WebhookFindEvent(p)
  \/ \E p \in Gateway : WebhookSaveEvent(p)

SpecPayments == InitPayments /\ [][NextPayments]_vars

\* ------------------------------------------------- payment notifications
\* C7: delivering the approved notification of a payment again, to a
\* reservation that a delivery of the same payment already approved, leaves
\* the reservation approved and paid and does not change paidAt.
C7_RedeliveryKeepsPaidAt ==
  [][\A p \in Gateway, c \in CodeChoices(reservations) :
       (/\ requests[p].pc = "webhook:saveReservation"
        /\ requests[p].payment.status = "approved"
        /\ requests[p].i # 0
        /\ requests[p].old.paymentStatus = "approved"
        /\ requests[p].old.paymentId = PaymentIdString(requests[p].payment.id)
        /\ WebhookSaveReservation(p, c))
       => LET i == requests[p].i
          IN /\ reservations'[i].paymentStatus = "approved"
             /\ reservations'[i].isPaid
             /\ reservations'[i].paidAt = reservations[i].paidAt]_vars

\* The approved payment 1 was delivered to a reservation it had approved
\* before the clock moved, and the reservation carries the later time.
C7_PaidAtAdvanced ==
  /\ last.op = "webhook:approved"
  /\ last.res = "updated"
  /\ now = MaxTime
  /\ Len(reservations) = 1
  /\ reservations[1].paymentId = "1"
  /\ reservations[1].totalAmount = 100
  /\ reservations[1].paymentMethod = "mercadopago"
  /\ reservations[1].reservationCode = 1
  /\ reservations[1].paidAt = MaxTime
  /\ events["e1"].preSaleStages[1].ticketsSold >= 2

\* C8: when the approved branch saves its reservation without an error,
\* the reservation with the payment's orderId (found or created) is
\* approved and paid, carries the payment's amount and the gateway's
\* payment id, and has paidAt set; the rest of the handler leaves the
\* reservations as they are.
C8_ApprovedRecorded ==
  [][\A p \in Gateway :
       /\ \A c \in CodeChoices(reservations) :
            (/\ requests[p].pc = "webhook:saveReservation"
             /\ requests[p].payment.status = "approved"
             /\ last'.op = "webhookStep:saveReservation"
             /\ WebhookSaveReservation(p, c))
            => LET payment == requests[p].payment
                   i == IF requests[p].i = 0 THEN Len(reservations') ELSE requests[p].i
               IN /\ i \in 1 .. Len(reservations')
                  /\ reservations'[i].orderId = payment.external_reference
                  /\ reservations'[i].paymentStatus = "approved"
                  /\ reservations'[i].isPaid
                  /\ reservations'[i].totalAmount = payment.transaction_amount
                  /\ reservations'[i].paymentId = PaymentIdString(payment.id)
                  /\ reservations'[i].paidAt # undefined
       /\ (/\ requests[p].pc \in {"webhook:findEvent", "webhook:saveEvent"}
           /\ (WebhookFindEvent(p) \/ WebhookSaveEvent(p)))
          => reservations' = reservations]_vars

\* An approval found the pending reservation of POST /reservations and
\* recorded payment 2 on it.
C8_PendingApproved ==
  /\ last.op = "webhook:approved"
  /\ last.res = "updated"
  /\ \E i \in 1 .. Len(reservations) :
       /\ reservations[i].orderId = "o1"
       /\ reservations[i].paymentMethod = "mercadopago"
       /\ reservations[i].preSaleStageIndex = 0
       /\ reservations[i].totalAmount = 200
       /\ reservations[i].paymentId = "2"

\* C9: a rejected (cancelled) payment whose orderId has a reservation
\* leaves it rejected with the gateway's detail (cancelled), not paid,
\* and changes no counter of any event.
C9_RejectedCancelledRecorded ==
  [][\A p \in Gateway, c \in CodeChoices(reservations) :
       (/\ requests[p].pc = "webhook:saveReservation"
        /\ requests[p].payment.status \in {"rejected", "cancelled"}
        /\ WebhookSaveReservation(p, c))
       => LET payment == requests[p].payment
              i == requests[p].i
          IN /\ i = FindByOrderId(reservations, payment.external_reference)
             /\ i # 0
             /\ reservations'[i].paymentStatus = payment.status
             /\ payment.status = "rejected"
                  => reservations'[i].paymentStatusDetail = payment.status_detail
             /\ ~reservations'[i].isPaid
             /\ events' = events
             /\ requests'[p] = Idle]_vars

\* A paid reservation whose stage counter was incremented was then
\* rejected: the counter is still there.
C9_PaidThenRejected ==
  /\ last.op = "webhook:rejected"
  /\ last.res = "updated"
  /\ \E i \in 1 .. Len(reservations) :
       /\ reservations[i].paymentStatus = "rejected"
       /\ reservations[i].paymentStatusDetail = "cc_rejected_other_reason"
       /\ reservations[i].paidAt # undefined
       /\ ~reservations[i].isPaid
  /\ events["e1"].preSaleStages[1].ticketsSold > 0

\* C10: a pending or in_process payment whose orderId has a reservation
\* sets the reservation's paymentStatus to that status and isPaid to false.
C10_PendingRecorded ==
  [][\A p \in Gateway, c \in CodeChoices(reservations) :
       (/\ requests[p].pc = "webhook:saveReservation"
        /\ requests[p].payment.status \in {"pending", "in_process"}
        /\ WebhookSaveReservation(p, c))
       => LET i == requests[p].i
          IN /\ reservations'[i].paymentStatus = requests[p].payment.status
             /\ ~reservations'[i].isPaid]_vars

\* An in_process notification reached a paid reservation and its save
\* was refused.
C10_InProcessRefused ==
  /\ last.op = "webhook:in_process"
  /\ last.res = "saveFailed"
  /\ \E i \in 1 .. Len(reservations) :
       reservations[i].orderId = "o1" /\ reservations[i].isPaid

\* C11: no step moves a reservation that is approved, rejected or
\* cancelled to a different paymentStatus; only a pending reservation
\* changes status.
C11_TerminalStatusKept ==
  [][\A i \in 1 .. Len(reservations) :
       reservations[i].paymentStatus \in {"approved", "rejected", "cancelled"}
       => reservations'[i].paymentStatus = reservations[i].paymentStatus]_vars

\* A reservation that a payment approved (paidAt is set) was moved to
\* rejected by a later notification.
C11_ApprovedThenRejected ==
  /\ last.op = "webhook:rejected"
  /\ last.res = "updated"
  /\ \E i \in 1 .. Len(reservations) :
       /\ reservations[i].paymentStatus = "rejected"
       /\ reservations[i].paymentId # ""
       /\ reservations[i].paidAt # undefined

\* C13: no two stored reservations carry the same orderId (reservations
\* without an orderId aside).
C13_OneReservationPerOrder ==
  \A i, j \in 1 .. Len(reservations) :
    (i # j /\ reservations[i].orderId # NoOrder)
    => reservations[i].orderId # reservations[j].orderId

\* Two pending reservations of POST /reservations carry the orderId o1.
C13_TwoForOneOrder ==
  /\ last = Answer("postReservation", "Created")
  /\ Len(reservations) = 2
  /\ \A i \in 1 .. 2 :
       /\ reservations[i].orderId = "o1"
       /\ reservations[i].paymentStatus = "pending"

\* ============================================= the paid flag of reservations
\* One active event with an unlimited free pool; reservations made by POST
\* /reservations (the caller may send isPaid), by the free and direct
\* routes and by payment notifications, and cancelled by their code, one
\* request after the other.
FlagRequestBodies ==
  {b \in WellFormedBodies :
     /\ b.n = 1
     /\ b.orderId = "o1"
     /\ b.paymentMethod = ""
     /\ b.totalAmount = 0
     /\ b.preSaleStageIndex = undefined}

InitFlags ==
  /\ now = 1
  /\ events = [e \in EventIds |->
                 CreateEvent(3, 200, <<NewStage(100, 2, 3)>>, TRUE, 0, 0)]
  /\ reservations = <<>>
  /\ requests = NoRequests
  /\ last = Answer("init", "ok")

NextFlags ==
  \/ \E p \in Sequential, b \in FlagRequestBodies : RequestRead(p, b)
  \/ \E p \in Sequential : RequestSaveEvent(p)
  \/ \E p \in Sequential, c \in CodeChoices(reservations) : RequestSaveReservation(p, c)
  \/ \E p \in Sequential : DirectReservation(p, "e1", 1)
  \/ \E p \in Sequential, c \in CodeChoices(reservations) :
       DirectReservationSaveReservation(p, c)
  \/ \E p \in Sequential : DirectReservationSaveEvent(p)
  \/ \E p \in Sequential, b \in FreePreferences : CreatePreference(p, b)
  \/ \E p \in Sequential, c \in CodeChoices(reservations) :
       CreatePreferenceSaveReservation(p, c)
  \/ \E p \in Sequential : CreatePreferenceSaveEvent(p)
  \/ \E p \in Sequential, c \in {1, 9} : CancelReservation(p, c)
  \/ \E p \in Sequential : CancelReservationSave(p)
  \/ \E p \in Sequential, st \in GatewayStatuses : WebhookPayment(p, 1, st)
  \/ \E p \in Sequential, c \in CodeChoices(reservations) : WebhookSaveReservation(p, c)
  \/ \E p \in Sequential : WebhookFindEvent(p)
  \/ \E p \in Sequential : WebhookSaveEvent(p)

SpecFlags == InitFlags /\ [][NextFlags]_vars

\* C12: in every stored reservation isPaid is true exactly when
\* paymentStatus is approved, and paidAt is set when paymentStatus is
\* approved.
C12_PaidIffApproved ==
  \A i \in 1 .. Len(reservations) :
    /\ reservations[i].isPaid <=> reservations[i].paymentStatus = "approved"
    /\ reservations[i].paymentStatus = "approved"
         => reservations[i].paidAt # undefined

\* POST /reservations stored a pending reservation with the caller's
\* isPaid = true.
C12_PendingButPaid ==
  /\ last = Answer("postReservation", "Created")
  /\ \E i \in 1 .. Len(reservations) :
       /\ reservations[i].paymentStatus = "pending"
       /\ reservations[i].isPaid
       /\ reservations[i].paidAt = undefined

\* C17: no two stored reservations share a reservationCode; a save of a
\* new reservation whose generated code is already stored fails, in POST
\* /reservations with the duplicate-key error, and every stored
\* reservation is left as it was.
C17_CodesUnique ==
  /\ [](\A i, j \in 1 .. Len(reservations) :
          i # j => reservations[i].reservationCode # reservations[j].reservationCode)
  /\ [][\A p \in Requesters, c \in CodeChoices(reservations) :
          (\E i \in 1 .. Len(reservations) : reservations[i].reservationCode = c)
          => /\ (requests[p].pc = "eventSaved" /\ RequestSaveReservation(p, c))
                => /\ last' = Answer("postReservation", "DuplicateKey")
                   /\ reservations' = reservations
             /\ (requests[p].pc = "direct:saveReservation"
                 /\ DirectReservationSaveReservation(p, c))
                => /\ last' = Answer("directReservation", "DIRECT_RESERVATION_ERROR")
                   /\ reservations' = reservations
             /\ (requests[p].pc = "free:saveReservation"
                 /\ CreatePreferenceSaveReservation(p, c))
                => /\ last' = Answer("createPreference", "FREE_TICKET_ERROR")
                   /\ reservations' = reservations
             /\ (requests[p].pc = "webhook:saveReservation" /\ requests[p].i = 0
                 /\ WebhookSaveReservation(p, c))
                => /\ last'.res = "threw"
                   /\ reservations' = reservations]_vars

\* A reservation request was refused because its code was taken.
C17_CollisionRefused ==
  /\ last = Answer("postReservation", "DuplicateKey")
  /\ Len(reservations) >= 1

\* ============================================= deliveries to POST /webhook
\* The event and the buyers of the payments above; the gateway delivers
\* notifications of every type, with and without a data object, for
\* payments it can and cannot return.
InitWebhook == InitPayments

NextWebhook ==
  \/ \E p \in Shoppers, b \in PaidRequestBodies : RequestRead(p, b)
  \/ \E p \in Shoppers : RequestSaveEvent(p)
  \/ \E p \in Shoppers, c \in CodeChoices(reservations) : RequestSaveReservation(p, c)
  \/ \E p \in Gateway, type \in NotificationTypes, hasData \in BOOLEAN,
        found \in BOOLEAN, id \in PaymentIds, st \in GatewayStatuses :
       WebhookDelivery(p, type, hasData, found, id, st)
  \/ \E p \in Gateway, c \in CodeChoices(reservations) : WebhookSaveReservation(p, c)
  \/ \E p \in Gateway : WebhookFindEvent(p)
  \/ \E p \in Gateway : WebhookSaveEvent(p)

SpecWebhook == InitWebhook /\ [][NextWebhook]_vars

\* C14: every delivery to POST /webhook is answered 200, whatever the
\* notification body and whether or not the gateway lookup or the processing
\* fails; and a delivery whose lookup fails modifies no reservation or event.
C14_AlwaysAcknowledged ==
  [][/\ (last'.op = "delivery" \/ last'.op \in {"webhook:" \o st : st \in GatewayStatuses})
        => last'.http = "200"
     /\ \A p \in Gateway, id \in PaymentIds, st \in GatewayStatuses :
          (last'.op = "delivery"
           /\ WebhookDelivery(p, "payment", TRUE, FALSE, id, st))
          => (events' = events /\ reservations' = reservations)]_vars

\* A delivery has been answered with the handler-level error.
C14_DeliveryRefused == last.op = "delivery" /\ last.http = "500"

\* ========================================================= event status
\* One event with one stage; the admin patches the status and updates the
\* date and the base price, buyers reserve (which saves the event), the
\* clock advances and the sweeper runs, one request or run after the other.
StatusInputs ==
  {"active", "cancelled", "completed", "sold-out", "free-sold-out", "archived"}

CancellationReasons == {"", "rain"}

\* An update sends a date, a base price or both, and no stage list.
DateUpdateBodies ==
  {b \in EventUpdateBodies :
     /\ ~b.hasFreeTickets /\ ~b.hasStages /\ b.preSaleStages = <<>>
     /\ (b.date # undefined \/ b.basePrice # undefined)}

InitStatus ==
  /\ now = 0
  /\ \E l \in Limits, d \in EndDates :
       events = [e \in EventIds |->
                   CreateEvent(2, 200, <<NewStage(100, l, d)>>, FALSE, 0, 0)]
  /\ reservations = <<>>
  /\ requests = NoRequests
  /\ last = Answer("init", "ok")

NextStatus ==
  \/ Tick
  \/ \E e \in EventIds \cup {MissingEvent}, st \in StatusInputs,
        reason \in CancellationReasons :
       PatchStatus(e, st, reason)
  \/ \E p \in Sequential, b \in StageRequestBodies : RequestRead(p, b)
  \/ \E p \in Sequential : RequestSaveEvent(p)
  \/ \E p \in Sequential, c \in CodeChoices(reservations) : RequestSaveReservation(p, c)
  \/ \E p \in Sequential, e \in EventIds, b \in DateUpdateBodies : UpdateEvent(p, e, b)
  \/ \E p \in Sequential : UpdateEventWrite(p)
  \/ \E p \in Sequential : SweepMark(p)
  \/ \E p \in Sequential : SweepFind(p)
  \/ \E p \in Sequential : SweepSave(p)

SpecStatus == InitStatus /\ [][NextStatus]_vars

\* C15: the status of an event never moves back to active: once it is
\* cancelled (or completed, or sold-out) no status patch, save or sweeper
\* run leaves it active again.
C15_NeverBackToActive ==
  [][\A e \in DOMAIN events :
       events[e].status # "active" => events'[e].status # "active"]_vars

\* A status patch has made a cancelled event active again; the reason and
\* the timestamp of the cancellation are still stored.
C15_Reactivated ==
  /\ last = Answer("patchStatus", "ok")
  /\ \E e \in DOMAIN events :
       /\ events[e].status = "active"
       /\ events[e].cancellationReason = "rain"
       /\ events[e].cancelledAt # undefined

\* C16: every successful status patch to cancelled, with or without a
\* cancellationReason, leaves the event cancelled with cancelledAt set, and
\* with the reason stored when one is given.
C16_CancellationStamped ==
  [][\A e \in EventIds, reason \in CancellationReasons :
       (last'.op = "patchStatus"
        /\ PatchStatus(e, "cancelled", reason)
        /\ last'.res = "ok")
       => /\ events'[e].status = "cancelled"
          /\ events'[e].cancelledAt # undefined
          /\ reason # "" => events'[e].cancellationReason = reason]_vars

\* An event has been cancelled and carries no cancellation timestamp.
C16_CancelledUnstamped ==
  /\ last = Answer("patchStatus", "ok")
  /\ \E e \in DOMAIN events :
       /\ events[e].status = "cancelled"
       /\ events[e].cancelledAt = undefined

\* C28: while the status of an event is not active no operation creates a
\* reservation for it or increments one of its consumption counters.
C28_InactiveEventsClosed ==
  [][\A e \in DOMAIN events :
       events[e].status # "active"
       => /\ Counters(events')[e] = Counters(events)[e]
          /\ \A i \in 1 .. Len(reservations') :
               i > Len(reservations) => reservations'[i].eventId # e]_vars

\* A reservation was created for a cancelled event.
C28_ReservedWhileCancelled ==
  /\ last = Answer("postReservation", "Created")
  /\ \E i \in 1 .. Len(reservations) :
       /\ reservations[i].eventId \in DOMAIN events
       /\ events[reservations[i].eventId].status = "cancelled"
       /\ events[reservations[i].eventId].preSaleStages[1].ticketsSold > 0

\* An update of the date alone was refused: the stage list that the
\* handler read back from the event holds a stage that has ended.
StoredStageRefusesUpdate ==
  /\ last = Answer("updateEvent", "EventValidationError")
  /\ \E e \in DOMAIN events :
       \E k \in 1 .. Len(events[e].preSaleStages) :
         events[e].preSaleStages[k].endDate <= now

\* ========================================================= stage pricing
\* One event with two stages of different prices; paid checkout requests
\* name a stage and may carry a unit price of their own, buyers reserve,
\* the admin switches the first stage on and off and the clock advances.
PricingBodies ==
  {b \in PreferenceBodies :
     /\ b.eventId \in EventIds
     /\ ~b.is_free_ticket
     /\ b.orderId = "o1"}

\* Buyers reserve one or two tickets of either stage.
PricingRequestBodies ==
  {StageRequest(e, k, n) : e \in EventIds, k \in {0, 1}, n \in TicketCounts}

InitPricing == InitAllocation

NextPricing ==
  \/ Tick
  \/ \E p \in Sequential, b \in PricingBodies : CreatePreference(p, b)
  \/ \E p \in Sequential : CreatePreferenceGateway(p)
  \/ \E p \in Sequential, b \in PricingRequestBodies : RequestRead(p, b)
  \/ \E p \in Sequential : RequestSaveEvent(p)
  \/ \E p \in Sequential, c \in CodeChoices(reservations) : RequestSaveReservation(p, c)
  \/ \E p \in Sequential, e \in EventIds, u \in StageSwitches : EditStage(p, e, 0, u)
  \/ \E p \in Sequential : EditStageSave(p)

SpecPricing == InitPricing /\ [][NextPricing]_vars

\* C18: a checkout request on an active event that names a pre-sale stage.
\* When the stage is active and unexpired and the preference is created,
\* the unit price of its items is the stage's price and the reported amount
\* is that price times the tickets; when the stage is missing, inactive or
\* expired the request fails with STAGE_NOT_AVAILABLE.
\* The stage is taken as the handler read it when it checked the request.
C18_StagePriceCharged ==
  [][\A p \in Sequential :
       /\ \A b \in PricingBodies :
            (/\ b.pre_sale_stage # undefined
             /\ events[b.eventId].status = "active"
             /\ CreatePreference(p, b))
            => LET stages == events[b.eventId].preSaleStages
                   k == b.pre_sale_stage + 1
                   available == /\ k \in 1 .. Len(stages)
                                /\ stages[k].isActive
                                /\ stages[k].endDate > now
               IN ~available
                    => last' = Answer("createPreference", "STAGE_NOT_AVAILABLE")
       /\ (/\ requests[p].pc = "preference:gateway"
           /\ requests[p].body.pre_sale_stage # undefined
           /\ CreatePreferenceGateway(p)
           /\ last'.res = "preference")
          => LET b == requests[p].body
                 stage == requests[p].loaded.preSaleStages[b.pre_sale_stage + 1]
             IN /\ PreferenceItemPrice(requests[p].loaded, b) = stage.price
                /\ PreferenceAmount(requests[p].loaded, b)
                     = stage.price * b.tickets]_vars

\* A preference was created while the first stage was on sale.
C18_PreferenceCreated ==
  /\ last = Answer("createPreference", "preference")
  /\ \E e \in DOMAIN events :
       /\ events[e].status = "active"
       /\ Len(events[e].preSaleStages) >= 1
       /\ events[e].preSaleStages[1].isActive
       /\ events[e].preSaleStages[1].endDate > now

\* =============================================================== sweeper
\* One event with one stage and a free pool; buyers take stage and free
\* tickets, the admin patches the status, the clock advances and the
\* scheduled job runs; one handler or run is in flight at a time.
\* Buyers take one or two tickets of the free pool or of the stage.
SweepRequestBodies ==
  {FreeRequest(e, n, "") : e \in EventIds, n \in TicketCounts}
    \cup {StageRequest(e, 0, n) : e \in EventIds, n \in TicketCounts}

InitSweep ==
  /\ now = 0
  /\ \E d \in EndDates, q \in Limits :
       events = [e \in EventIds |->
                   CreateEvent(3, 200, <<NewStage(100, 2, d)>>, TRUE, q, 0)]
  /\ reservations = <<>>
  /\ requests = NoRequests
  /\ last = Answer("init", "ok")

NextSweep ==
  \/ Tick
  \/ \E p \in Sequential : SweepMark(p)
  \/ \E p \in Sequential : SweepFind(p)
  \/ \E p \in Sequential : SweepSave(p)
  \/ \E p \in Sequential, b \in SweepRequestBodies : RequestRead(p, b)
  \/ \E p \in Sequential : RequestSaveEvent(p)
  \/ \E p \in Sequential, c \in CodeChoices(reservations) : RequestSaveReservation(p, c)
  \/ \E e \in EventIds, st \in EventStatuses : PatchStatus(e, st, "")

SpecSweep == InitSweep /\ [][NextSweep]_vars

\* C19: when a run of the sweeper ends, every stage whose endDate had
\* passed when the run started is inactive, whatever the status of its
\* event; and no save of the run changes isActive of a stage whose endDate
\* had not passed.
C19_ExpiredStagesDeactivated ==
  [][\A p \in Sequential :
       (requests[p].pc = "found" /\ SweepSave(p))
       => \A e \in DOMAIN events :
            \A i \in 1 .. Len(events[e].preSaleStages) :
              /\ (last'.op = "sweep"
                  /\ events[e].preSaleStages[i].endDate < requests[p].at)
                 => ~events'[e].preSaleStages[i].isActive
              /\ events[e].preSaleStages[i].endDate >= now
                 => events'[e].preSaleStages[i].isActive
                      = events[e].preSaleStages[i].isActive]_vars

\* The sweeper ran and left an expired stage active.
C19_ExpiredStillActive ==
  /\ last.op = "sweep"
  /\ \E e \in DOMAIN events :
       \E i \in 1 .. Len(events[e].preSaleStages) :
         /\ events[e].preSaleStages[i].endDate < now
         /\ events[e].preSaleStages[i].isActive

\* C20: when a run of the sweeper ends, every event that is active with an
\* exhausted free pool (quantity > 0 and ticketsClaimed >= quantity) is
\* left sold-out.
C20_ExhaustedPoolSoldOut ==
  [][\A p \in Sequential :
       (requests[p].pc = "found" /\ SweepSave(p) /\ last'.op = "sweep")
       => \A e \in DOMAIN events :
            (/\ events[e].status = "active"
             /\ events[e].freeTickets.quantity > 0
             /\ events[e].freeTickets.ticketsClaimed >= events[e].freeTickets.quantity)
            => events'[e].status = "sold-out"]_vars

\* The sweeper ran and left an event active whose free pool is exhausted.
C20_ExhaustedStillActive ==
  /\ last.op = "sweep"
  /\ \E e \in DOMAIN events :
       /\ events[e].status = "active"
       /\ events[e].freeTickets.quantity > 0
       /\ events[e].freeTickets.ticketsClaimed >= events[e].freeTickets.quantity

\* ==================================================== sweeper, two events
\* Two events, each with one stage; buyers reserve, the admin patches the
\* status, the clock advances and the scheduled job runs.
SweepEventIds == {"e1", "e2"}

\* Buyers take one ticket of the stage of either event.
SweepTwoRequestBodies == {StageRequest(e, 0, 1) : e \in SweepEventIds}

InitSweepTwo ==
  /\ now = 0
  /\ \E d1 \in EndDates, d2 \in EndDates :
       events = [e \in SweepEventIds |->
                   CreateEvent(3, 200,
                               <<NewStage(100, 2, IF e = "e1" THEN d1 ELSE d2)>>,
                               FALSE, 0, 0)]
  /\ reservations = <<>>
  /\ requests = NoRequests
  /\ last = Answer("init", "ok")

NextSweepTwo ==
  \/ Tick
  \/ \E p \in Sequential : SweepMark(p)
  \/ \E p \in Sequential : SweepFind(p)
  \/ \E p \in Sequential : SweepSave(p)
  \/ \E p \in Sequential, b \in SweepTwoRequestBodies : RequestRead(p, b)
  \/ \E p \in Sequential : RequestSaveEvent(p)
  \/ \E p \in Sequential, c \in CodeChoices(reservations) : RequestSaveReservation(p, c)
  \/ \E e \in SweepEventIds, st \in {"active", "cancelled"} : PatchStatus(e, st, "")

SpecSweepTwo == InitSweepTwo /\ [][NextSweepTwo]_vars

\* C21: a run of the sweeper ends only after the save of every event that
\* its find returned: when a save fails, no found event is left unsaved.
C21_SweepContinues ==
  [][\A p \in Sequential :
       (requests[p].pc = "found" /\ SweepSave(p) /\ requests'[p] = Idle)
       => Cardinality(SweepRest(requests[p])) <= 1]_vars

\* The sweeper failed while both events had an expired stage still active.
C21_SweepAbandoned ==
  /\ last = Answer("sweep", "failed")
  /\ \A e \in SweepEventIds :
       /\ e \in DOMAIN events
       /\ NeedsDeactivation(events[e], now)

====
